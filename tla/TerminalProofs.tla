--------------------------- MODULE TerminalProofs ---------------------------
(***************************************************************************)
(* Theorems about LocalTerminal: its types, that what commands print       *)
(* appears in order, and that a link stays readable for its time, for any  *)
(* number of commands, tokens and links.                                   *)
(***************************************************************************)
EXTENDS LocalTerminal, SequenceTheorems, WellFoundedInduction, TLAPS

(* A timer that has not fired belongs to a link. *)
TimersOfLinks ==
  /\ timers.old + (IF timers.last THEN 1 ELSE 0) <= Len(links)
  /\ Len(links) <= MaxLinks

(* As long as every thread was waited for, the threads of earlier commands, *)
(* and of the newest one after its drain, are done.                        *)
ThreadsDone ==
  ~outlived => \A c \in Commands :
    /\ c < gen => reader[c].state = "done"
    /\ c = gen /\ phase \in {"prompt", "clean", "restore"} => reader[c].state = "done"
    /\ c > gen => reader[c].state = "none"

(* Then nothing is held any longer when restore cleans up. *)
NothingHeld == ~outlived /\ phase = "restore" => gate.held = <<>>

(* An open gate holds nothing. *)
OpenHoldsNothing == gate.kind = "open" => gate.held = <<>>

(* The clean-up before a restart is for a command that may follow. *)
OneMayFollow == phase = "clean" => gen < MaxCommands

IInv ==
  /\ TypeOK /\ OpenHoldsNothing /\ TimersOfLinks
  /\ ThreadsDone /\ NothingHeld /\ OneMayFollow /\ InOrder

-----------------------------------------------------------------------------
(***************************************************************************)
(* The operations on the gate keep its type, and write what they do not    *)
(* hold.                                                                   *)
(***************************************************************************)

Gates == [kind : {"waiting", "linger", "open"}, held : Seq(Tokens),
          blocked : BOOLEAN, passed : BOOLEAN]

SoundGate(g) == g \in Gates /\ (g.kind = "open" => g.held = <<>>)

(* The fields of a result. *)
LEMMA ResultFields ==
  ASSUME NEW k, NEW o, NEW r, r = [gate |-> k, out |-> o]
  PROVE  r.gate = k /\ r.out = o
OBVIOUS

(* The empty sequence adds nothing. *)
LEMMA NothingBeforeOrAfter ==
  ASSUME NEW s \in Seq(Tokens)
  PROVE  /\ <<>> \in Seq(Tokens) /\ <<>> \o s = s /\ s \o <<>> = s
BY EmptySeq, ConcatEmptySeq

(* The least-number principle, for a set. *)
LEMMA LeastOfNat ==
  ASSUME NEW T, T \subseteq Nat, T # {}
  PROVE  \E i \in T : \A j \in T : i <= j
<1> DEFINE R == OpToRel(<, Nat)
<1>1. IsWellFoundedOn(R, Nat)
  BY NatLessThanWellFounded
<1>2. \A x, y \in Nat : y < x => <<y, x>> \in R
  BY DEF OpToRel
<1> HIDE DEF R
<1>3. PICK i \in T : \A j \in T : ~(<<j, i>> \in R)
  BY <1>1, WFMin
<1>4. \A j \in T : ~(j < i)
  BY <1>2, <1>3
<1> QED BY <1>4

(* A sequence cut in two is the sequence. *)
LEMMA CutIsWhole ==
  ASSUME NEW s \in Seq(Tokens), NEW n \in 0..Len(s)
  PROVE  /\ SubSeq(s, 1, n) \in Seq(Tokens)
         /\ SubSeq(s, n + 1, Len(s)) \in Seq(Tokens)
         /\ SubSeq(s, 1, n) \o SubSeq(s, n + 1, Len(s)) = s
<1>1. \A i \in 1..Len(s) : s[i] \in Tokens
  BY ElementOfSeq
<1>2. SubSeq(s, 1, n) \in Seq(Tokens)
  BY <1>1, SubSeqProperties
<1>3. SubSeq(s, n + 1, Len(s)) \in Seq(Tokens)
  BY <1>1, SubSeqProperties
<1>4. SubSeq(s, 1, n) \o SubSeq(s, n + 1, Len(s)) = SubSeq(s, 1, Len(s))
  <2>1. 1 \in 1..(Len(s) + 1) /\ n \in (1 - 1)..Len(s) /\ Len(s) \in n..Len(s)
    OBVIOUS
  <2> QED BY <2>1, ConcatAdjacentSubSeq, Zenon
<1> QED BY <1>2, <1>3, <1>4, SubSeqFull

(* A lingering gate writes the beginning of what it has and holds the rest. *)
LEMMA LingerChunkKeeps ==
  ASSUME NEW g, SoundGate(g), g.kind # "open", NEW chunk \in Seq(Tokens)
  PROVE  LET r == LingerChunk(g, chunk) IN
         /\ SoundGate(r.gate) /\ r.gate.kind = g.kind /\ r.out \in Seq(Tokens)
         /\ r.out \o r.gate.held = g.held \o chunk
<1> DEFINE all == g.held \o chunk
           cut == IF g.blocked THEN 0
                  ELSE IF Switches(all) # {} THEN AltScreenAt(all) - 1
                  ELSE Len(all) - AltPrefixLen(all)
<1>1. all \in Seq(Tokens) /\ Len(all) \in Nat
  BY DEF Gates, SoundGate
<1> HIDE DEF all
<1>2. cut \in 0..Len(all)
  <2>1. CASE g.blocked
    BY <2>1, <1>1
  <2>2. CASE ~g.blocked /\ Switches(all) # {}
    <3>1. Switches(all) \subseteq Nat
      BY DEF Switches
    <3>2. PICK i \in Switches(all) : \A j \in Switches(all) : i <= j
      BY <2>2, <3>1, LeastOfNat
    <3>3. AltScreenAt(all) \in Switches(all)
      BY <3>2 DEF AltScreenAt
    <3> QED BY SMTT(30), <2>2, <3>3, <1>1 DEF Switches
  <2>3. CASE ~g.blocked /\ Switches(all) = {}
    BY <2>3, <1>1 DEF AltPrefixLen
  <2> QED BY <2>1, <2>2, <2>3
<1> HIDE DEF cut
<1>3. /\ SubSeq(all, 1, cut) \in Seq(Tokens)
      /\ SubSeq(all, cut + 1, Len(all)) \in Seq(Tokens)
      /\ SubSeq(all, 1, cut) \o SubSeq(all, cut + 1, Len(all)) = all
  BY <1>1, <1>2, CutIsWhole
<1> DEFINE kept == [g EXCEPT !.held = SubSeq(all, cut + 1, Len(all)),
                             !.blocked = g.blocked \/ Switches(all) # {}]
<1>4. LingerChunk(g, chunk) = [gate |-> kept, out |-> SubSeq(all, 1, cut)]
  BY Zenon DEF LingerChunk, cut, all
<1>5. kept \in Gates /\ kept.kind = g.kind /\ kept.held = SubSeq(all, cut + 1, Len(all))
  BY <1>3 DEF Gates, SoundGate
<1>6. SoundGate(kept)
  BY <1>5 DEF SoundGate
<1> HIDE DEF kept
<1>7. LingerChunk(g, chunk).gate = kept /\ LingerChunk(g, chunk).out = SubSeq(all, 1, cut)
  <2> DEFINE shown == SubSeq(all, 1, cut)
             result == LingerChunk(g, chunk)
  <2>1. result = [gate |-> kept, out |-> shown]
    BY <1>4
  <2> HIDE DEF shown, result
  <2>2. result.gate = kept /\ result.out = shown
    BY <2>1
  <2> QED BY <2>2 DEF shown, result
<1> QED BY <1>3, <1>5, <1>6, <1>7 DEF all

(* Opening writes all that was held. *)
LEMMA OpenedKeeps ==
  ASSUME NEW g, SoundGate(g)
  PROVE  /\ SoundGate(Opened(g).gate) /\ Opened(g).gate.held = <<>>
         /\ Opened(g).out = g.held /\ Opened(g).out \in Seq(Tokens)
         /\ Opened(g).out \o Opened(g).gate.held = g.held
<1> DEFINE open == [kind |-> "open", held |-> <<>>, blocked |-> FALSE, passed |-> FALSE]
<1>1. g.held \in Seq(Tokens) /\ g.held \o <<>> = g.held /\ <<>> \in Seq(Tokens)
  BY NothingBeforeOrAfter DEF Gates, SoundGate
<1>2. open \in Gates /\ open.held = <<>>
  BY <1>1 DEF Gates
<1>3. SoundGate(open)
  BY <1>2 DEF SoundGate
<1>4. Opened(g) = [gate |-> open, out |-> g.held]
  BY DEF Opened
<1> HIDE DEF open
<1>5. Opened(g).gate = open /\ Opened(g).out = g.held
  BY <1>4, SMT
<1> QED BY <1>1, <1>2, <1>3, <1>5

(* Whatever its kind, a gate writes or holds what it is given, in order. *)
LEMMA ChildOutputKeeps ==
  ASSUME NEW g, SoundGate(g), NEW chunk \in Seq(Tokens)
  PROVE  LET r == ChildOutput(g, chunk) IN
         /\ SoundGate(r.gate) /\ r.gate.kind = g.kind /\ r.out \in Seq(Tokens)
         /\ r.out \o r.gate.held = g.held \o chunk
<1>1. g.held \in Seq(Tokens) /\ g.held \o chunk \in Seq(Tokens)
  BY ConcatProperties DEF Gates, SoundGate
<1>2. CASE g.kind = "waiting"
  <2> DEFINE kept == [g EXCEPT !.held = g.held \o chunk]
  <2>1. ChildOutput(g, chunk) = [gate |-> kept, out |-> <<>>]
    BY <1>2, Zenon DEF ChildOutput
  <2>2. kept \in Gates /\ kept.kind = g.kind /\ kept.held = g.held \o chunk
    BY <1>1 DEF Gates, SoundGate
  <2>3. SoundGate(kept)
    BY <1>2, <2>2 DEF SoundGate
  <2> HIDE DEF kept
  <2>4. ChildOutput(g, chunk).gate = kept /\ ChildOutput(g, chunk).out = <<>>
    BY <2>1, ResultFields, ZenonT(40)
  <2>5. <<>> \in Seq(Tokens) /\ <<>> \o (g.held \o chunk) = g.held \o chunk
    BY <1>1, NothingBeforeOrAfter
  <2> QED BY <2>2, <2>3, <2>4, <2>5, Zenon
<1>3. CASE g.kind = "linger"
  <2>1. ChildOutput(g, chunk) = LingerChunk(g, chunk)
    BY <1>3 DEF ChildOutput
  <2> QED BY ZenonT(40), <1>3, <2>1, LingerChunkKeeps
<1>4. CASE g.kind = "open"
  <2>1. ChildOutput(g, chunk) = [gate |-> g, out |-> chunk]
    BY <1>4, Zenon DEF ChildOutput
  <2>2. ChildOutput(g, chunk).gate = g /\ ChildOutput(g, chunk).out = chunk
    BY <2>1, ResultFields, ZenonT(40)
  <2>3. g.held = <<>> /\ chunk \o <<>> = <<>> \o chunk
    BY <1>4, NothingBeforeOrAfter DEF SoundGate
  <2> QED BY <2>2, <2>3, Zenon
<1>5. g.kind \in {"waiting", "linger", "open"}
  BY DEF SoundGate, Gates
<1> QED BY <1>2, <1>3, <1>4, <1>5

(* A link loses nothing of what is held. *)
LEMMA StartLingerKeeps ==
  ASSUME NEW g, SoundGate(g)
  PROVE  LET r == StartLinger(g) IN
         /\ SoundGate(r.gate) /\ r.gate.kind = "linger" /\ r.out \in Seq(Tokens)
         /\ r.out \o r.gate.held = g.held
<1> DEFINE fresh == [kind |-> "linger", held |-> <<>>, blocked |-> FALSE, passed |-> FALSE]
<1>1. g.held \in Seq(Tokens) /\ <<>> \o g.held = g.held /\ <<>> \in Seq(Tokens)
  BY NothingBeforeOrAfter DEF Gates, SoundGate
<1>2. CASE g.kind = "linger"
  <2> DEFINE again == [g EXCEPT !.passed = FALSE]
  <2>1. StartLinger(g) = [gate |-> again, out |-> <<>>]
    BY <1>2, Zenon DEF StartLinger
  <2>2. again \in Gates /\ again.kind = "linger" /\ again.held = g.held
    BY <1>2 DEF Gates, SoundGate
  <2>3. SoundGate(again)
    BY <2>2 DEF SoundGate
  <2> HIDE DEF again
  <2>4. StartLinger(g).gate = again /\ StartLinger(g).out = <<>>
    BY <2>1, ResultFields, ZenonT(40)
  <2> QED BY <1>1, <2>2, <2>3, <2>4, Zenon
<1>3. CASE g.kind # "linger"
  <2>1. fresh \in Gates /\ fresh.held = <<>> /\ fresh.kind = "linger"
    BY <1>1 DEF Gates
  <2>2. SoundGate(fresh)
    BY <2>1 DEF SoundGate
  <2>3. StartLinger(g) = LingerChunk(fresh, g.held)
    BY <1>3 DEF StartLinger
  <2>4. fresh.kind # "open" /\ fresh.held \o g.held = g.held
    BY <1>1
  <2> HIDE DEF fresh
  <2>5. LET r == LingerChunk(fresh, g.held) IN
        /\ SoundGate(r.gate) /\ r.gate.kind = fresh.kind /\ r.out \in Seq(Tokens)
        /\ r.out \o r.gate.held = fresh.held \o g.held
    BY <1>1, <2>2, <2>4, LingerChunkKeeps, Zenon
  <2> QED BY <2>1, <2>3, <2>4, <2>5, Zenon
<1> QED BY <1>2, <1>3

(* The parts of nothing are nothing. *)
LEMMA NothingFromNothing ==
  ASSUME NEW s \in Seq(Tokens), NEW t \in Seq(Tokens), s \o t = <<>>
  PROVE  t = <<>>
<1>1. Len(s \o t) = Len(s) + Len(t) /\ Len(s) \in Nat /\ Len(t) \in Nat
  BY ConcatProperties, LenProperties
<1> DEFINE m == Len(s)
           n == Len(t)
           all == s \o t
<1>2. Len(all) = m + n /\ m \in Nat /\ n \in Nat /\ all = <<>>
  BY <1>1
<1>3. t # <<>> => n \in Nat \ {0}
  BY EmptySeq
<1> HIDE DEF m, n, all
<1>4. Len(all) = 0
  BY <1>2
<1>5. n = 0
  BY <1>2, <1>4
<1> QED BY <1>3, <1>5

(* Appending is associative. *)
LEMMA TokensAssociate ==
  ASSUME NEW s \in Seq(Tokens), NEW t \in Seq(Tokens), NEW u \in Seq(Tokens)
  PROVE  (s \o t) \o u = s \o (t \o u)
BY ConcatAssociative

(* So whatever is written, screen and gate together grow by the chunk. *)
LEMMA WritesKeep ==
  ASSUME gate.held \in Seq(Tokens), screen \in Seq(Tokens),
         NEW r, NEW chunk \in Seq(Tokens), Writes(r),
         SoundGate(r.gate), r.out \in Seq(Tokens),
         r.out \o r.gate.held = gate.held \o chunk
  PROVE  /\ SoundGate(gate') /\ screen' \in Seq(Tokens)
         /\ screen' \o gate'.held = (screen \o gate.held) \o chunk
<1>1. r.gate.held \in Seq(Tokens)
  BY DEF SoundGate, Gates
<1>2. (screen \o r.out) \o r.gate.held = screen \o (r.out \o r.gate.held)
  BY <1>1, TokensAssociate, ZenonT(40)
<1>3. screen \o (gate.held \o chunk) = (screen \o gate.held) \o chunk
  BY TokensAssociate, Zenon
<1>4. (screen \o r.out) \o r.gate.held = (screen \o gate.held) \o chunk
  BY <1>2, <1>3, Zenon
<1>5. screen \o r.out \in Seq(Tokens)
  BY ConcatProperties
<1>6. gate' = r.gate /\ screen' = screen \o r.out
  BY DEF Writes
<1> QED BY <1>4, <1>5, <1>6, Zenon

(* The same, where nothing is given. *)
LEMMA WritesAll ==
  ASSUME gate.held \in Seq(Tokens), screen \in Seq(Tokens),
         NEW r, Writes(r),
         SoundGate(r.gate), r.out \in Seq(Tokens), r.out \o r.gate.held = gate.held
  PROVE  /\ SoundGate(gate') /\ screen' \in Seq(Tokens)
         /\ screen' \o gate'.held = screen \o gate.held
<1>1. screen \o gate.held \in Seq(Tokens)
  BY ConcatProperties
<1>2. /\ gate.held \o <<>> = gate.held
      /\ (screen \o gate.held) \o <<>> = screen \o gate.held
      /\ <<>> \in Seq(Tokens)
  BY <1>1, NothingBeforeOrAfter
<1>3. r.out \o r.gate.held = gate.held \o <<>>
  BY <1>2, Zenon
<1>4. /\ SoundGate(gate') /\ screen' \in Seq(Tokens)
      /\ screen' \o gate'.held = (screen \o gate.held) \o <<>>
  BY <1>2, <1>3, WritesKeep
<1> QED BY <1>2, <1>4, Zenon

-----------------------------------------------------------------------------
(***************************************************************************)
(* The observer and the clean-up.                                          *)
(***************************************************************************)

(* cleanup writes tokens. *)
LEMMA CleanupIsTokens ==
  ASSUME TypeOK PROVE Cleanup \in Seq(Tokens)
<1> DEFINE n == IF modes.depth < MaxPops THEN modes.depth ELSE MaxPops
           pops == [i \in 1..n |-> "pop"]
           off == IF modes.alt THEN <<"esc", "off">> ELSE <<>>
<1>1. n \in Nat
  BY TerminalAssumption DEF TypeOK
<1>2. pops \in Seq(Tokens)
  BY <1>1, IsASeq DEF Tokens
<1>3. off \in Seq(Tokens)
  <2>1. <<"esc", "off">> \in Seq(Tokens) /\ <<>> \in Seq(Tokens)
    BY DEF Tokens
  <2> QED BY <2>1, Zenon
<1>4. Cleanup = pops \o off
  BY DEF Cleanup
<1> HIDE DEF pops, off
<1> QED BY <1>2, <1>3, <1>4, ConcatProperties

(* A chunk is one or two tokens. *)
LEMMA ChunkIsTokens ==
  ASSUME NEW tail, NEW chunk \in Chunks(tail)
  PROVE  /\ chunk \in Seq(Tokens) /\ Len(chunk) \in {1, 2}
         /\ \A i \in 1..Len(chunk) : chunk[i] \in Tokens
<1>1. \A t : MayFollow(t) \subseteq Tokens
  BY DEF MayFollow, Tokens
<1>2. PICK t \in Tokens : chunk = <<t>> \/ \E u \in Tokens : chunk = <<t, u>>
  BY <1>1 DEF Chunks
<1>3. CASE chunk = <<t>>
  BY <1>3
<1>4. ASSUME NEW u \in Tokens, chunk = <<t, u>>
      PROVE  /\ chunk \in Seq(Tokens) /\ Len(chunk) \in {1, 2}
             /\ \A i \in 1..Len(chunk) : chunk[i] \in Tokens
  BY <1>4
<1> QED BY <1>2, <1>3, <1>4

Seen == [pending : Seq(Tokens), alt : BOOLEAN, depth : Nat]

(* The observer keeps no level below zero. *)
LEMMA TakesKeepsType ==
  ASSUME NEW seen \in Seen, NEW token \in Tokens
  PROVE  Takes(seen, token) \in Seen
<1>1. <<"esc">> \in Seq(Tokens) /\ <<>> \in Seq(Tokens)
  BY DEF Tokens
<1>2. CASE token = "esc"
  BY <1>1, <1>2 DEF Takes, Seen
<1>3. CASE token \in {"on", "off"} /\ seen.pending # <<>>
  <2>1. Takes(seen, token) = [seen EXCEPT !.alt = (token = "on"), !.pending = <<>>]
    BY <1>3 DEF Takes
  <2> QED BY <1>1, <2>1 DEF Seen
<1>4. CASE token = "push"
  BY <1>4 DEF Takes, Seen
<1>5. CASE token = "pop" /\ seen.depth > 0
  BY <1>5 DEF Takes, Seen
<1>6. CASE /\ token # "esc" /\ token # "push"
           /\ ~(token \in {"on", "off"} /\ seen.pending # <<>>)
           /\ ~(token = "pop" /\ seen.depth > 0)
  BY <1>6 DEF Takes
<1> QED BY <1>2, <1>3, <1>4, <1>5, <1>6

(* Nor does it through a chunk. *)
LEMMA ObservedIsSeen ==
  ASSUME TypeOK, NEW c \in Commands, NEW chunk \in Chunks(reader[c].pending)
  PROVE  Observed(reader[c].pending, chunk) \in Seen
<1> DEFINE start == [pending |-> reader[c].pending, alt |-> modes.alt, depth |-> modes.depth]
           first == Takes(start, chunk[1])
<1>1. start \in Seen
  BY DEF TypeOK, Seen
<1> HIDE DEF start
<1>2. Len(chunk) \in {1, 2} /\ \A i \in 1..Len(chunk) : chunk[i] \in Tokens
  BY ChunkIsTokens
<1>3. first \in Seen
  BY <1>1, <1>2, TakesKeepsType
<1>4. Observed(reader[c].pending, chunk)
        = IF Len(chunk) = 1 THEN first ELSE Takes(first, chunk[2])
  BY DEF Observed, start
<1> HIDE DEF first
<1>5. Len(chunk) = 2 => Takes(first, chunk[2]) \in Seen
  BY <1>2, <1>3, TakesKeepsType
<1> QED BY <1>2, <1>3, <1>4, <1>5

-----------------------------------------------------------------------------
(***************************************************************************)
(* Each part of the invariant is kept by every step.                       *)
(***************************************************************************)

(* What the invariant says of gate and screen. *)
LEMMA GateFacts ==
  ASSUME IInv
  PROVE  /\ SoundGate(gate) /\ gate.held \in Seq(Tokens)
         /\ screen \in Seq(Tokens) /\ given \in Seq(Tokens)
BY DEF IInv, TypeOK, OpenHoldsNothing, SoundGate, Gates

(* And of the chunks that threads are about to hand over. *)
LEMMA ReaderChunk ==
  ASSUME IInv, NEW c \in Commands
  PROVE  reader[c].chunk \in Seq(Tokens)
BY DEF IInv, TypeOK

(* Steps that open the gate. *)
LEMMA OpeningShowsAll ==
  ASSUME IInv, Writes(Opened(gate))
  PROVE  /\ SoundGate(gate') /\ screen' \in Seq(Tokens) /\ gate'.held = <<>>
         /\ screen' \o gate'.held = screen \o gate.held
<1> DEFINE r == Opened(gate)
<1>1. SoundGate(r.gate) /\ r.out \in Seq(Tokens) /\ r.out \o r.gate.held = gate.held
      /\ r.gate.held = <<>>
  BY GateFacts, OpenedKeeps
<1>2. gate' = r.gate
  BY DEF Writes
<1> HIDE DEF r
<1>3. Writes(r)
  BY DEF r
<1> QED BY <1>1, <1>2, <1>3, GateFacts, WritesAll

(* Steps that give the gate a chunk. *)
LEMMA HandingOverGrows ==
  ASSUME IInv, NEW chunk \in Seq(Tokens), Writes(ChildOutput(gate, chunk))
  PROVE  /\ SoundGate(gate') /\ screen' \in Seq(Tokens)
         /\ screen' \o gate'.held = (screen \o gate.held) \o chunk
<1> DEFINE r == ChildOutput(gate, chunk)
<1>1. SoundGate(r.gate) /\ r.out \in Seq(Tokens)
      /\ r.out \o r.gate.held = gate.held \o chunk
  BY GateFacts, ChildOutputKeeps
<1>2. Writes(r)
  OBVIOUS
<1> HIDE DEF r
<1> QED BY <1>1, <1>2, GateFacts, WritesKeep

(* A note with a link. *)
LEMMA LinkingShowsOrHolds ==
  ASSUME IInv, Writes(StartLinger(gate))
  PROVE  /\ SoundGate(gate') /\ screen' \in Seq(Tokens)
         /\ screen' \o gate'.held = screen \o gate.held
         /\ gate.held = <<>> => gate'.held = <<>>
<1> DEFINE r == StartLinger(gate)
<1>1. SoundGate(r.gate) /\ r.out \in Seq(Tokens) /\ r.out \o r.gate.held = gate.held
  BY GateFacts, StartLingerKeeps
<1>2. Writes(r) /\ gate' = r.gate
  BY DEF Writes
<1> HIDE DEF r
<1>3. /\ SoundGate(gate') /\ screen' \in Seq(Tokens)
      /\ screen' \o gate'.held = screen \o gate.held
  BY <1>1, <1>2, GateFacts, WritesAll
<1>4. r.gate.held \in Seq(Tokens)
  BY <1>1 DEF SoundGate, Gates
<1>5. ASSUME gate.held = <<>> PROVE r.gate.held = <<>>
  <2>1. r.out \o r.gate.held = <<>>
    BY <1>1, <1>5
  <2> QED BY <1>1, <1>4, <2>1, NothingFromNothing
<1> QED BY <1>2, <1>3, <1>5

(* What each kind of step does to gate, screen and given. *)
LEMMA OutputStep ==
  ASSUME IInv, Next
  PROVE  /\ SoundGate(gate') /\ screen' \in Seq(Tokens) /\ given' \in Seq(Tokens)
         /\ InOrder'
<1> USE GateFacts
<1>1. phase # "done"
  BY DEF Next, Read, HandOver, EndOfOutput, Link, GiveUp, LingerPasses, EndLinger,
         CommandEnds, Drained, CleansForRestart, Restarts, RestoreReleases, RestoreCleans
<1>2. screen \o gate.held = given
  BY <1>1 DEF IInv, InOrder
<1>3. ASSUME gate' = gate, screen' = screen, given' = given
      PROVE  /\ SoundGate(gate') /\ screen' \in Seq(Tokens) /\ given' \in Seq(Tokens)
             /\ InOrder'
  BY <1>2, <1>3 DEF InOrder
<1>4. ASSUME NEW c \in Commands, Read(c) \/ HandOver(c) \/ EndOfOutput(c)
      PROVE  /\ SoundGate(gate') /\ screen' \in Seq(Tokens) /\ given' \in Seq(Tokens)
             /\ InOrder'
  <2>1. CASE Read(c)
    BY <1>3, <2>1 DEF Read
  <2>2. CASE HandOver(c)
    <3>1. reader[c].chunk \in Seq(Tokens)
      BY ReaderChunk
    <3>2. Writes(ChildOutput(gate, reader[c].chunk)) /\ given' = given \o reader[c].chunk
      BY <2>2 DEF HandOver
    <3>3. /\ SoundGate(gate') /\ screen' \in Seq(Tokens)
          /\ screen' \o gate'.held = (screen \o gate.held) \o reader[c].chunk
      BY <3>1, <3>2, HandingOverGrows
    <3>4. given' \in Seq(Tokens)
      BY <3>1, <3>2, ConcatProperties
    <3> QED BY <1>2, <3>2, <3>3, <3>4 DEF InOrder
  <2>3. CASE EndOfOutput(c)
    BY <1>3, <2>3 DEF EndOfOutput
  <2> QED BY <1>4, <2>1, <2>2, <2>3
<1>5. CASE Link
  BY <1>2, <1>5, LinkingShowsOrHolds DEF Link, InOrder
<1>6. CASE GiveUp
  <2>1. CASE gate.kind = "waiting"
    BY <1>2, <1>6, <2>1, OpeningShowsAll DEF GiveUp, InOrder
  <2>2. CASE gate.kind # "waiting"
    BY <1>3, <1>6, <2>2 DEF GiveUp
  <2> QED BY <2>1, <2>2
<1>7. CASE LingerPasses
  <2>1. gate' = [gate EXCEPT !.passed = TRUE] /\ gate.kind = "linger"
        /\ screen' = screen /\ given' = given
    BY <1>7 DEF LingerPasses
  <2>2. gate'.held = gate.held /\ SoundGate(gate')
    BY <2>1 DEF SoundGate, Gates
  <2> QED BY <1>2, <2>1, <2>2 DEF InOrder
<1>8. CASE EndLinger
  <2>1. CASE gate.kind = "linger" /\ gate.passed
    BY <1>2, <1>8, <2>1, OpeningShowsAll DEF EndLinger, InOrder
  <2>2. CASE ~(gate.kind = "linger" /\ gate.passed)
    BY <1>3, <1>8, <2>2 DEF EndLinger
  <2> QED BY <2>1, <2>2
<1>9. CASE CommandEnds
  BY <1>3, <1>9 DEF CommandEnds
<1>10. CASE Drained
  BY <1>2, <1>10, OpeningShowsAll DEF Drained, InOrder
<1>11. CASE CleansForRestart
  BY <1>3, <1>11 DEF CleansForRestart
<1>12. CASE Restarts
  <2>1. reset \in Seq(Tokens)
    BY DEF IInv, TypeOK
  <2>2. Writes(ChildOutput(gate, reset)) /\ given' = given \o reset
    BY <1>12 DEF Restarts
  <2>3. /\ SoundGate(gate') /\ screen' \in Seq(Tokens)
        /\ screen' \o gate'.held = (screen \o gate.held) \o reset
    BY <2>1, <2>2, HandingOverGrows
  <2>4. given' \in Seq(Tokens)
    BY <2>1, <2>2, ConcatProperties
  <2> QED BY <1>2, <2>2, <2>3, <2>4 DEF InOrder
<1>13. CASE RestoreReleases
  BY <1>2, <1>13, OpeningShowsAll DEF RestoreReleases, InOrder
<1>14. CASE RestoreCleans
  <2>1. /\ gate' = Opened(gate).gate /\ screen' = (screen \o Cleanup) \o Opened(gate).out
        /\ given' = given \o Cleanup /\ outlived' = outlived
        /\ phase = "restore" /\ phase' = "done"
    BY <1>14 DEF RestoreCleans
  <2>2. /\ SoundGate(gate') /\ gate'.held = <<>> /\ Opened(gate).out = gate.held
    BY <2>1, OpenedKeeps
  <2>3. Cleanup \in Seq(Tokens) /\ given' \in Seq(Tokens) /\ screen \o Cleanup \in Seq(Tokens)
    BY <2>1, CleanupIsTokens, ConcatProperties DEF IInv
  <2>4. screen' \in Seq(Tokens)
    BY <2>1, <2>2, <2>3, ConcatProperties
  <2>5. ASSUME ~outlived' PROVE screen' \o gate'.held = given'
    <3>1. gate.held = <<>>
      BY <2>1, <2>5 DEF IInv, NothingHeld
    <3>2. screen = given
      BY <1>2, <3>1, NothingBeforeOrAfter
    <3>3. screen' = screen \o Cleanup
      BY <2>1, <2>2, <2>3, <3>1, NothingBeforeOrAfter
    <3>4. screen' \o <<>> = screen'
      BY <2>4, NothingBeforeOrAfter
    <3>5. given' = screen'
      BY <2>1, <3>2, <3>3, Zenon
    <3> QED BY <2>2, <3>4, <3>5
  <2> QED BY <2>1, <2>2, <2>3, <2>4, <2>5 DEF InOrder
<1> QED BY <1>4, <1>5, <1>6, <1>7, <1>8, <1>9, <1>10, <1>11, <1>12, <1>13, <1>14 DEF Next

(* Timers are started with links, and fire once. *)
LEMMA TimersStep ==
  ASSUME IInv, Next
  PROVE  TimersOfLinks'
<1> USE TerminalAssumption
<1>1. /\ timers \in [giveUp : BOOLEAN, old : 0..MaxLinks, last : BOOLEAN]
      /\ links \in Seq(Nat) /\ Len(screen) \in Nat /\ TimersOfLinks
  BY DEF IInv, TypeOK
<1>2. ASSUME timers' = timers, links' = links PROVE TimersOfLinks'
  BY <1>1, <1>2 DEF TimersOfLinks
<1>3. CASE Link
  <2>1. timers' = [timers EXCEPT !.old = IF timers.last THEN timers.old + 1 ELSE timers.old,
                                 !.last = TRUE]
        /\ links' = Append(links, Len(screen)) /\ Len(links) < MaxLinks
    BY <1>3 DEF Link
  <2>2. Len(links') = Len(links) + 1 /\ Len(links) \in Nat
    BY <1>1, <2>1, AppendProperties
  <2>3. timers'.last /\ timers'.old = (IF timers.last THEN timers.old + 1 ELSE timers.old)
    BY <1>1, <2>1
  <2> QED BY <1>1, <2>1, <2>2, <2>3 DEF TimersOfLinks
<1>4. CASE GiveUp
  <2>1. timers' = [timers EXCEPT !.giveUp = FALSE] /\ links' = links
    BY <1>4 DEF GiveUp
  <2> QED BY <1>1, <2>1 DEF TimersOfLinks
<1>5. CASE EndLinger
  <2>1. /\ links' = links
        /\ \/ timers.old > 0 /\ timers' = [timers EXCEPT !.old = timers.old - 1]
           \/ timers.last /\ timers' = [timers EXCEPT !.last = FALSE]
    BY <1>5 DEF EndLinger
  <2> QED BY SMTT(30), <1>1, <2>1 DEF TimersOfLinks
<1>6. CASE ~Link /\ ~GiveUp /\ ~EndLinger
  <2>1. timers' = timers /\ links' = links
    BY <1>6 DEF Next, Read, HandOver, EndOfOutput, LingerPasses, CommandEnds, Drained,
               CleansForRestart, Restarts, RestoreReleases, RestoreCleans
  <2> QED BY <1>2, <2>1
<1> QED BY <1>3, <1>4, <1>5, <1>6

(* A restart waits for the thread before, unless it is given up. *)
LEMMA ThreadsStep ==
  ASSUME IInv, Next
  PROVE  ThreadsDone'
<1> DEFINE Types == /\ gen \in Commands /\ MaxCommands \in Nat
                    /\ reader \in [Commands -> [state : {"none", "reading", "handing", "done"},
                                     chunk : Seq(Tokens), pending : Seq(Tokens)]]
<1>1. Types /\ ThreadsDone
  BY TerminalAssumption DEF IInv, TypeOK
<1>2. ASSUME gen' = gen, reader' = reader, outlived' = outlived,
             phase' = phase \/ ~(phase' \in {"prompt", "clean", "restore"})
                            \/ phase \in {"prompt", "clean", "restore"}
      PROVE  ThreadsDone'
  BY <1>1, <1>2 DEF ThreadsDone
<1>3. ASSUME NEW c \in Commands, Read(c) \/ HandOver(c) \/ EndOfOutput(c)
      PROVE  ThreadsDone'
  <2>1. /\ reader[c].state \in {"reading", "handing"}
        /\ gen' = gen /\ phase' = phase /\ outlived' = outlived
        /\ \A d \in Commands : d # c => reader'[d] = reader[d]
    BY <1>1, <1>3 DEF Read, HandOver, EndOfOutput
  <2>2. ~outlived => c = gen /\ ~(phase \in {"prompt", "clean", "restore"})
    BY <1>1, <2>1 DEF ThreadsDone, Commands
  <2> QED BY <1>1, <2>1, <2>2 DEF ThreadsDone, Commands
<1>4. CASE Link \/ GiveUp \/ LingerPasses \/ EndLinger \/ CommandEnds \/ CleansForRestart
           \/ RestoreCleans
  BY <1>2, <1>4 DEF Link, GiveUp, LingerPasses, EndLinger, CommandEnds, CleansForRestart,
                    RestoreCleans
<1>5. CASE Drained \/ RestoreReleases
  <2>1. /\ gen' = gen /\ reader' = reader
        /\ ~outlived' => ~outlived /\ reader[gen].state = "done"
    <3>1. CASE Drained
      BY <3>1 DEF Drained, Drain
    <3>2. CASE RestoreReleases
      BY <1>1, <3>2 DEF RestoreReleases, Drain, ThreadsDone
    <3> QED BY <1>5, <3>1, <3>2
  <2> QED BY <1>1, <2>1 DEF ThreadsDone
<1>6. CASE Restarts
  <2>1. /\ phase = "clean" /\ phase' = "run" /\ gen' = gen + 1 /\ outlived' = outlived
        /\ \A d \in Commands : d # gen + 1 => reader'[d] = reader[d]
    BY <1>1, <1>6 DEF Restarts
  <2>2. ~outlived => \A d \in Commands : d <= gen => reader[d].state = "done"
    BY <1>1, <2>1 DEF ThreadsDone, Commands
  <2> QED BY <1>1, <2>1, <2>2 DEF ThreadsDone, Commands
<1> QED BY <1>3, <1>4, <1>5, <1>6 DEF Next

(* Once everything was let out before restore, nobody hands anything over. *)
LEMMA HeldStep ==
  ASSUME IInv, Next
  PROVE  NothingHeld'
<1>1. CASE phase' # "restore"
  BY <1>1 DEF NothingHeld
<1>2. CASE phase' = "restore" /\ phase # "restore"
  <2>1. RestoreReleases
    BY <1>2 DEF Next, Read, HandOver, EndOfOutput, Link, GiveUp, LingerPasses, EndLinger,
                CommandEnds, Drained, CleansForRestart, Restarts, RestoreCleans
  <2> QED BY <2>1, OpeningShowsAll DEF RestoreReleases, NothingHeld
<1>3. CASE phase' = "restore" /\ phase = "restore"
  <2>1. ASSUME ~outlived'
        PROVE  gate'.held = <<>>
    <3>1. ~outlived /\ gate.held = <<>>
      <4>1. ~outlived
        BY <1>3, <2>1 DEF Next, Read, HandOver, EndOfOutput, Link, GiveUp, LingerPasses,
                EndLinger, CommandEnds, Drained, CleansForRestart, Restarts,
                RestoreReleases, RestoreCleans
      <4> QED BY <1>3, <4>1 DEF IInv, NothingHeld
    <3>2. ASSUME NEW c \in Commands, HandOver(c) PROVE FALSE
      <4>1. reader[c].state = "handing"
        BY <3>2 DEF HandOver
      <4>2. gen \in Nat /\ c \in Nat
        BY TerminalAssumption DEF IInv, TypeOK, Commands
      <4>3. c < gen \/ c = gen \/ c > gen
        BY <4>2
      <4> QED BY <1>3, <3>1, <4>1, <4>3 DEF IInv, ThreadsDone
    <3>3. CASE gate' = gate
      BY <3>1, <3>3
    <3>4. CASE Link
      BY <3>1, <3>4, LinkingShowsOrHolds DEF Link
    <3>5. CASE GiveUp
      BY <3>1, <3>5, OpeningShowsAll DEF GiveUp
    <3>6. CASE EndLinger
      BY <3>1, <3>6, OpeningShowsAll DEF EndLinger
    <3>7. CASE LingerPasses
      <4>1. gate' = [gate EXCEPT !.passed = TRUE]
        BY <3>7 DEF LingerPasses
      <4> QED BY <3>1, <4>1, GateFacts DEF SoundGate, Gates
    <3>8. gate' = gate \/ Link \/ GiveUp \/ EndLinger \/ LingerPasses
      BY <1>3, <3>2 DEF Next, Read, EndOfOutput, CommandEnds, Drained, CleansForRestart,
                        Restarts, RestoreReleases, RestoreCleans
    <3> QED BY <3>3, <3>4, <3>5, <3>6, <3>7, <3>8
  <2> QED BY <2>1 DEF NothingHeld
<1> QED BY <1>1, <1>2, <1>3

(* A restart is cleaned up for only if there is a command to start. *)
LEMMA FollowStep ==
  ASSUME IInv, Next
  PROVE  OneMayFollow'
BY DEF IInv, OneMayFollow, Next, Read, HandOver, EndOfOutput, Link, GiveUp, LingerPasses,
       EndLinger, CommandEnds, Drained, CleansForRestart, Restarts, RestoreReleases,
       RestoreCleans

(* Every step keeps the types. *)
LEMMA TypeStep ==
  ASSUME IInv, Next
  PROVE  TypeOK'
<1> USE TerminalAssumption
<1>1. gate' \in Gates /\ screen' \in Seq(Tokens) /\ given' \in Seq(Tokens)
  BY OutputStep DEF SoundGate
<1>2. phase' \in {"run", "ended", "prompt", "clean", "restore", "done"}
      /\ outlived' \in BOOLEAN
  BY DEF IInv, TypeOK, Next, Read, HandOver, EndOfOutput, Link, GiveUp, LingerPasses,
         EndLinger, CommandEnds, Drained, Drain, CleansForRestart, Restarts,
         RestoreReleases, RestoreCleans
<1>3. gen' \in Commands
  <2>1. CASE Restarts
    BY <2>1 DEF Restarts, IInv, TypeOK, OneMayFollow, Commands
  <2>2. CASE ~Restarts
    BY <2>2 DEF IInv, TypeOK, Next, Read, HandOver, EndOfOutput, Link, GiveUp,
           LingerPasses, EndLinger, CommandEnds, Drained, CleansForRestart,
           RestoreReleases, RestoreCleans
  <2> QED BY <2>1, <2>2
<1> DEFINE Readers == [state : {"none", "reading", "handing", "done"},
                       chunk : Seq(Tokens), pending : Seq(Tokens)]
<1>4. /\ reader' \in [Commands -> Readers] /\ left' \in 0..MaxTokens
      /\ modes' \in [alt : BOOLEAN, depth : Nat]
  <2>1. /\ reader \in [Commands -> Readers] /\ left \in 0..MaxTokens
        /\ modes \in [alt : BOOLEAN, depth : Nat]
    BY DEF IInv, TypeOK
  <2>2. Reading \in Readers
    BY NothingBeforeOrAfter, EmptySeq DEF Reading
  <2>3. ASSUME NEW c \in Commands, Read(c)
        PROVE  /\ reader' \in [Commands -> Readers] /\ left' \in 0..MaxTokens
               /\ modes' \in [alt : BOOLEAN, depth : Nat]
    <3>1. PICK chunk \in Chunks(reader[c].pending) :
            LET seen == Observed(reader[c].pending, chunk) IN
            /\ Len(chunk) <= left
            /\ left' = left - Len(chunk)
            /\ modes' = [alt |-> seen.alt, depth |-> seen.depth]
            /\ reader' = [reader EXCEPT ![c] = [state |-> "handing", chunk |-> chunk,
                                                pending |-> seen.pending]]
      BY <2>3 DEF Read
    <3> DEFINE seen == Observed(reader[c].pending, chunk)
    <3>2. seen \in Seen
      BY ObservedIsSeen DEF IInv
    <3>3. seen.pending \in Seq(Tokens) /\ seen.alt \in BOOLEAN /\ seen.depth \in Nat
      BY <3>2 DEF Seen
    <3>4. chunk \in Seq(Tokens) /\ Len(chunk) \in {1, 2}
      BY ChunkIsTokens
    <3> HIDE DEF seen
    <3>5. /\ left' = left - Len(chunk) /\ Len(chunk) <= left
          /\ modes' = [alt |-> seen.alt, depth |-> seen.depth]
          /\ reader' = [reader EXCEPT ![c] = [state |-> "handing", chunk |-> chunk,
                                              pending |-> seen.pending]]
      BY <3>1 DEF seen
    <3> QED BY <2>1, <3>3, <3>4, <3>5
  <2>4. ASSUME NEW c \in Commands, HandOver(c) \/ EndOfOutput(c)
        PROVE  /\ reader' \in [Commands -> Readers]
               /\ left' = left /\ modes' = modes
    <3>1. reader[c] \in Readers /\ <<>> \in Seq(Tokens)
      BY <2>1, NothingBeforeOrAfter, EmptySeq
    <3>2. CASE HandOver(c)
      <4>1. [reader[c] EXCEPT !.state = "reading", !.chunk = <<>>] \in Readers
        BY <3>1
      <4>2. /\ reader' = [reader EXCEPT ![c] = [reader[c] EXCEPT !.state = "reading",
                                                              !.chunk = <<>>]]
            /\ left' = left /\ modes' = modes
        BY <3>2 DEF HandOver
      <4> QED BY <2>1, <4>1, <4>2
    <3>3. CASE EndOfOutput(c)
      <4>1. [reader[c] EXCEPT !.state = "done"] \in Readers
        BY <3>1
      <4>2. /\ reader' = [reader EXCEPT ![c] = [reader[c] EXCEPT !.state = "done"]]
            /\ left' = left /\ modes' = modes
        BY <3>3 DEF EndOfOutput
      <4> QED BY <2>1, <4>1, <4>2
    <3> QED BY <2>4, <3>2, <3>3
  <2>5. CASE Restarts
    BY <2>1, <2>2, <2>5 DEF Restarts
  <2>6. Clean \in [alt : BOOLEAN, depth : Nat]
    BY DEF Clean
  <2>7. CASE CleansForRestart \/ RestoreCleans
    BY <2>1, <2>6, <2>7 DEF CleansForRestart, RestoreCleans
  <2>8. CASE Link \/ GiveUp \/ LingerPasses \/ EndLinger \/ CommandEnds \/ Drained
             \/ RestoreReleases
    BY <2>1, <2>8 DEF Link, GiveUp, LingerPasses, EndLinger, CommandEnds, Drained,
                      RestoreReleases
  <2> QED BY <2>1, <2>3, <2>4, <2>5, <2>7, <2>8 DEF Next
<1>5. reset' \in Seq(Tokens)
  <2>1. CASE CleansForRestart
    BY <2>1, CleanupIsTokens DEF CleansForRestart, IInv
  <2>2. CASE Restarts
    BY <2>2, EmptySeq DEF Restarts
  <2>3. CASE ~CleansForRestart /\ ~Restarts
    BY <2>3 DEF IInv, TypeOK, Next, Read, HandOver, EndOfOutput, Link, GiveUp,
           LingerPasses, EndLinger, CommandEnds, Drained, RestoreReleases, RestoreCleans
  <2> QED BY <2>1, <2>2, <2>3
<1>6. links' \in Seq(Nat)
  <2>1. links \in Seq(Nat) /\ Len(screen) \in Nat
    BY DEF IInv, TypeOK
  <2>2. CASE Link
    BY <2>1, <2>2, AppendProperties DEF Link
  <2>3. CASE ~Link
    BY <2>1, <2>3 DEF Next, Read, HandOver, EndOfOutput, GiveUp, LingerPasses, EndLinger,
           CommandEnds, Drained, CleansForRestart, Restarts, RestoreReleases, RestoreCleans
  <2> QED BY <2>2, <2>3
<1>7. timers' \in [giveUp : BOOLEAN, old : 0..MaxLinks, last : BOOLEAN]
  <2> DEFINE old == IF timers.last THEN timers.old + 1 ELSE timers.old
  <2>1. /\ timers \in [giveUp : BOOLEAN, old : 0..MaxLinks, last : BOOLEAN]
        /\ links \in Seq(Nat) /\ TimersOfLinks
    BY DEF IInv, TypeOK
  <2>2. CASE Link
    <3>1. timers' = [timers EXCEPT !.old = old, !.last = TRUE] /\ Len(links) < MaxLinks
      BY <2>2 DEF Link
    <3>2. old \in 0..MaxLinks
      BY <2>1, <3>1 DEF TimersOfLinks
    <3> HIDE DEF old
    <3> QED BY <2>1, <3>1, <3>2
  <2>3. CASE GiveUp
    BY <2>1, <2>3 DEF GiveUp
  <2>4. CASE EndLinger
    <3>1. \/ timers.old > 0 /\ timers' = [timers EXCEPT !.old = timers.old - 1]
          \/ timers' = [timers EXCEPT !.last = FALSE]
      BY <2>4 DEF EndLinger
    <3>2. CASE timers.old > 0 /\ timers' = [timers EXCEPT !.old = timers.old - 1]
      <4>1. timers.old - 1 \in 0..MaxLinks
        BY <2>1, <3>2
      <4> QED BY <2>1, <3>2, <4>1
    <3>3. CASE timers' = [timers EXCEPT !.last = FALSE]
      BY <2>1, <3>3
    <3> QED BY <3>1, <3>2, <3>3
  <2>5. CASE ~Link /\ ~GiveUp /\ ~EndLinger
    BY <2>1, <2>5 DEF Next, Read, HandOver, EndOfOutput, LingerPasses, CommandEnds, Drained,
           CleansForRestart, Restarts, RestoreReleases, RestoreCleans
  <2> QED BY <2>2, <2>3, <2>4, <2>5
<1> QED BY <1>1, <1>2, <1>3, <1>4, <1>5, <1>6, <1>7 DEF TypeOK, Gates

(* The first command runs, and nothing was printed. *)
LEMMA InvInit == Init => IInv
<1> SUFFICES ASSUME Init PROVE IInv
  OBVIOUS
<1> USE TerminalAssumption, EmptySeq DEF Init
<1>1. TypeOK
  <2> DEFINE Readers == [state : {"none", "reading", "handing", "done"},
                         chunk : Seq(Tokens), pending : Seq(Tokens)]
  <2>1. <<>> \in Seq(Tokens) /\ <<>> \in Seq(Nat)
    OBVIOUS
  <2>2. Reading \in Readers /\ [Reading EXCEPT !.state = "none"] \in Readers
    BY <2>1 DEF Reading
  <2> HIDE DEF Readers
  <2>3. reader \in [Commands -> Readers]
    BY <2>2
  <2>4. gen \in Commands
    BY DEF Commands
  <2>5. /\ left \in 0..MaxTokens /\ modes \in [alt : BOOLEAN, depth : Nat]
        /\ gate \in [kind : {"waiting", "linger", "open"}, held : Seq(Tokens),
                     blocked : BOOLEAN, passed : BOOLEAN]
        /\ timers \in [giveUp : BOOLEAN, old : 0..MaxLinks, last : BOOLEAN]
    BY <2>1
  <2>6. /\ phase \in {"run", "ended", "prompt", "clean", "restore", "done"}
        /\ reset \in Seq(Tokens) /\ screen \in Seq(Tokens) /\ links \in Seq(Nat)
        /\ given \in Seq(Tokens) /\ outlived \in BOOLEAN
    BY <2>1
  <2> QED BY ONLY <2>3, <2>4, <2>5, <2>6 DEF TypeOK, Readers
<1>2. OpenHoldsNothing /\ NothingHeld /\ OneMayFollow
  BY DEF OpenHoldsNothing, NothingHeld, OneMayFollow
<1>3. TimersOfLinks
  BY DEF TimersOfLinks
<1>4. ThreadsDone
  BY DEF ThreadsDone, Commands, Reading
<1>5. InOrder
  BY NothingBeforeOrAfter DEF InOrder
<1> QED BY <1>1, <1>2, <1>3, <1>4, <1>5 DEF IInv

(* Every step keeps the invariant. *)
LEMMA InvNext == IInv /\ [Next]_vars => IInv'
<1> SUFFICES ASSUME IInv, [Next]_vars PROVE IInv'
  OBVIOUS
<1>1. CASE Next
  <2>1. OpenHoldsNothing'
    BY <1>1, OutputStep DEF SoundGate, OpenHoldsNothing
  <2>2. InOrder'
    BY <1>1, OutputStep
  <2> QED BY <1>1, <2>1, <2>2, TypeStep, TimersStep, ThreadsStep, HeldStep, FollowStep DEF IInv
<1>2. CASE UNCHANGED vars
  BY <1>2 DEF vars, IInv, TypeOK, OpenHoldsNothing, TimersOfLinks, ThreadsDone, NothingHeld,
              OneMayFollow, InOrder
<1> QED BY <1>1, <1>2

-----------------------------------------------------------------------------
(* The inductive invariant holds in every reachable state. *)
LEMMA Invariant == Spec => []IInv
BY InvInit, InvNext, PTL DEF Spec

(* Every variable keeps its type, whatever the number of commands and links *)
(* and the length of their output: modes.rs keeps no level below zero, and  *)
(* the gate and the pending tails hold tokens only.                         *)
THEOREM TypeCorrect == Spec => []TypeOK
<1>1. IInv => TypeOK
  BY DEF IInv
<1> QED BY <1>1, Invariant, PTL

(* What a command prints reaches the terminal complete and in its order, up *)
(* to what the gate of src/term.rs still holds: through every link, timer,  *)
(* exit and restart, for any number of them.                                *)
THEOREM OutputInOrder == Spec => []InOrder
<1>1. IInv => InOrder
  BY DEF IInv
<1> QED BY <1>1, Invariant, PTL

-----------------------------------------------------------------------------
(***************************************************************************)
(* A link stays readable: an invariant beside IInv.                        *)
(***************************************************************************)

\* What a lingering gate keeps back from the screen: switches, and the beginning of one
\* that the next chunk may complete.
Shielded ==
  gate.kind = "linger" =>
    /\ links # <<>>
    /\ \A i \in Switches(screen) : i <= links[Len(links)]
    /\ ~gate.blocked =>
         /\ gate.held \in {<<>>, <<"esc">>}
         /\ Len(screen) > links[Len(links)] /\ screen[Len(screen)] = "esc"
              => gate.held = <<"esc">>

\* What LingerChunk lets through is no switch, nor with what it keeps the beginning of one.
Shields(g, r) ==
  /\ Switches(r.out) = {}
  /\ r.out # <<>> => ~g.blocked
  /\ r.out # <<>> /\ g.held = <<"esc">> => r.out[1] = "esc"
  /\ ~r.gate.blocked =>
       /\ ~g.blocked /\ r.gate.held \in {<<>>, <<"esc">>}
       /\ r.out # <<>> /\ r.out[Len(r.out)] = "esc" => r.gate.held = <<"esc">>
       /\ r.out = <<>> /\ g.held = <<"esc">> => r.gate.held = <<"esc">>

\* The parts of a sequence cut in two.
LEMMA CutElements ==
  ASSUME NEW s \in Seq(Tokens), NEW n \in 0..Len(s)
  PROVE  /\ Len(SubSeq(s, 1, n)) = n
         /\ \A i \in 1..n : SubSeq(s, 1, n)[i] = s[i]
         /\ Len(SubSeq(s, n + 1, Len(s))) = Len(s) - n
         /\ \A i \in 1..(Len(s) - n) : SubSeq(s, n + 1, Len(s))[i] = s[n + i]
<1>1. Len(s) \in Nat /\ \A i \in 1..Len(s) : s[i] \in Tokens
  BY ElementOfSeq
<1>2. SubSeq(s, 1, n) = [i \in 1..n |-> s[i]]
  BY <1>1
<1>3. SubSeq(s, n + 1, Len(s)) = [i \in 1..(Len(s) - n) |-> s[n + i]]
  BY <1>1
<1> QED BY <1>1, <1>2, <1>3

\* LingerChunk shields, if it held no more than the beginning of a switch.
LEMMA LingerChunkShields ==
  ASSUME NEW g, SoundGate(g), NEW chunk \in Seq(Tokens),
         ~g.blocked => g.held \in {<<>>, <<"esc">>}
  PROVE  Shields(g, LingerChunk(g, chunk))
<1> DEFINE all == g.held \o chunk
           cut == IF g.blocked THEN 0
                  ELSE IF Switches(all) # {} THEN AltScreenAt(all) - 1
                  ELSE Len(all) - AltPrefixLen(all)
           shown == SubSeq(all, 1, cut)
           rest == SubSeq(all, cut + 1, Len(all))
           kept == [g EXCEPT !.held = rest, !.blocked = g.blocked \/ Switches(all) # {}]
<1>1. /\ g.held \in Seq(Tokens) /\ g.blocked \in BOOLEAN
      /\ all \in Seq(Tokens) /\ Len(all) \in Nat
      /\ g.held = <<"esc">> => Len(all) > 0 /\ all[1] = "esc"
  <2>1. g.held \in Seq(Tokens) /\ g.blocked \in BOOLEAN
    BY DEF Gates, SoundGate
  <2>2. ASSUME g.held = <<"esc">> PROVE Len(all) > 0 /\ all[1] = "esc"
    <3>1. all = <<"esc">> \o chunk
      BY <2>2
    <3> HIDE DEF all
    <3> QED BY <3>1
  <2>3. all \in Seq(Tokens) /\ Len(all) \in Nat
    BY <2>1
  <2> QED BY <2>1, <2>2, <2>3
<1>2. kept.held = rest /\ kept.blocked = (g.blocked \/ Switches(all) # {})
  BY DEF Gates, SoundGate
<1>3. LingerChunk(g, chunk) = [gate |-> kept, out |-> shown]
  BY Zenon DEF LingerChunk
<1> HIDE DEF kept
<1> DEFINE r == LingerChunk(g, chunk)
<1>4. r.gate = kept /\ r.out = shown
  <2> HIDE DEF shown, r
  <2>1. r = [gate |-> kept, out |-> shown]
    BY <1>3 DEF shown, r
  <2> QED BY <2>1, ResultFields, Zenon
<1> HIDE DEF all
<1>5. \/ cut = 0 /\ g.blocked
      \/ /\ ~g.blocked /\ Switches(all) # {} /\ cut \in 0..Len(all)
         /\ \A i \in Switches(all) : cut < i
      \/ /\ ~g.blocked /\ Switches(all) = {} /\ cut = Len(all) - AltPrefixLen(all)
         /\ AltPrefixLen(all) \in {0, 1} /\ cut \in 0..Len(all)
  <2>1. CASE g.blocked
    BY <2>1
  <2>2. CASE ~g.blocked /\ Switches(all) # {}
    <3>1. Switches(all) \subseteq 1..Len(all)
      BY DEF Switches
    <3>2. PICK i \in Switches(all) : \A j \in Switches(all) : i <= j
      BY SMTT(30), <2>2, <3>1, <1>1, LeastOfNat
    <3>3. /\ AltScreenAt(all) \in Switches(all)
          /\ \A j \in Switches(all) : AltScreenAt(all) <= j
      BY <3>2 DEF AltScreenAt
    <3>4. cut = AltScreenAt(all) - 1
      BY <2>2
    <3> QED BY <2>2, <3>1, <3>3, <3>4, <1>1
  <2>3. CASE ~g.blocked /\ Switches(all) = {}
    <3>1. all # <<>> => Len(all) > 0
      BY <1>1
    <3> QED BY <2>3, <3>1, <1>1 DEF AltPrefixLen
  <2> QED BY <2>1, <2>2, <2>3
<1>6. cut \in 0..Len(all)
  BY <1>1, <1>5
<1> HIDE DEF cut
<1>7. /\ Len(shown) = cut /\ \A i \in 1..cut : shown[i] = all[i]
      /\ Len(rest) = Len(all) - cut /\ \A i \in 1..(Len(all) - cut) : rest[i] = all[cut + i]
      /\ shown \in Seq(Tokens) /\ rest \in Seq(Tokens)
      /\ Len(shown) \in Nat /\ Len(rest) \in Nat
  BY <1>1, <1>6, CutElements, CutIsWhole
<1> HIDE DEF shown, rest, r
<1>8. Switches(shown) = {}
  <2>1. ASSUME NEW i \in Switches(shown) PROVE FALSE
    <3>1. i \in 1..cut /\ i < cut /\ shown[i] = "esc" /\ shown[i + 1] = "on"
      BY <2>1, <1>7 DEF Switches
    <3>2. i \in Switches(all)
      BY <3>1, <1>1, <1>6, <1>7 DEF Switches
    <3> QED BY <3>1, <3>2, <1>5, <1>6
  <2> QED BY <2>1
<1>9. shown # <<>> <=> cut > 0
  BY <1>6, <1>7
<1>10. shown # <<>> => ~g.blocked
  BY <1>5, <1>9
<1>11. shown # <<>> /\ g.held = <<"esc">> => shown[1] = "esc"
  BY <1>1, <1>6, <1>7, <1>9
<1>12. ASSUME ~kept.blocked
       PROVE  /\ ~g.blocked /\ rest \in {<<>>, <<"esc">>}
              /\ shown # <<>> /\ shown[Len(shown)] = "esc" => rest = <<"esc">>
              /\ shown = <<>> /\ g.held = <<"esc">> => rest = <<"esc">>
  <2>1. /\ ~g.blocked /\ cut = Len(all) - AltPrefixLen(all) /\ AltPrefixLen(all) \in {0, 1}
    BY <1>2, <1>5, <1>12
  <2>2. CASE AltPrefixLen(all) = 0
    <3>1. rest = <<>> /\ cut = Len(all)
      BY <1>1, <1>7, <2>1, <2>2
    <3>2. shown # <<>> => shown[Len(shown)] = all[Len(all)] /\ all[Len(all)] # "esc"
      BY <1>1, <1>7, <1>9, <2>2, <3>1, EmptySeq DEF AltPrefixLen
    <3>3. g.held = <<"esc">> => shown # <<>>
      BY <1>1, <1>9, <3>1
    <3> QED BY <2>1, <3>1, <3>2, <3>3
  <2>3. CASE AltPrefixLen(all) = 1
    <3>1. all[Len(all)] = "esc" /\ cut = Len(all) - 1 /\ Len(rest) = 1
      BY <1>1, <1>7, <2>1, <2>3 DEF AltPrefixLen
    <3>2. rest[1] = "esc"
      BY <1>1, <1>7, <3>1
    <3>3. rest = <<"esc">>
      BY <1>7, <3>1, <3>2
    <3> QED BY <2>1, <3>3
  <2> QED BY <2>1, <2>2, <2>3
<1>13. Switches(r.out) = {} /\ (r.out # <<>> => ~g.blocked)
  BY <1>4, <1>8, <1>10 DEF r
<1>14. r.out # <<>> /\ g.held = <<"esc">> => r.out[1] = "esc"
  BY <1>4, <1>11 DEF r
<1>15. ~r.gate.blocked =>
       /\ ~g.blocked /\ r.gate.held \in {<<>>, <<"esc">>}
       /\ r.out # <<>> /\ r.out[Len(r.out)] = "esc" => r.gate.held = <<"esc">>
       /\ r.out = <<>> /\ g.held = <<"esc">> => r.gate.held = <<"esc">>
  BY <1>2, <1>4, <1>12 DEF r
<1> QED BY <1>13, <1>14, <1>15 DEF Shields, r

\* A sequence ends as its last part does.
LEMMA LastOfConcat ==
  ASSUME NEW s \in Seq(Tokens), NEW t \in Seq(Tokens), t # <<>>
  PROVE  (s \o t)[Len(s \o t)] = t[Len(t)]
<1>1. Len(s) \in Nat /\ Len(t) \in Nat /\ Len(t) > 0 /\ Len(s \o t) = Len(s) + Len(t)
  OBVIOUS
<1> QED BY <1>1

\* On a screen that shows no switch since position l, what is let through adds none.
LEMMA NoSwitchAdded ==
  ASSUME NEW l \in Nat, NEW s \in Seq(Tokens), NEW out \in Seq(Tokens),
         \A i \in Switches(s) : i <= l,
         Switches(out) = {},
         s # <<>> /\ Len(s) > l /\ s[Len(s)] = "esc" /\ out # <<>> => out[1] = "esc"
  PROVE  \A i \in Switches(s \o out) : i <= l
<1> DEFINE all == s \o out
           m == Len(s)
           n == Len(out)
<1>1. /\ m \in Nat /\ n \in Nat /\ Len(all) = m + n
      /\ \A i \in 1..m : all[i] = s[i]
      /\ \A i \in 1..n : all[m + i] = out[i]
  OBVIOUS
<1>2. (s # <<>> <=> m > 0) /\ (out # <<>> <=> n > 0)
  OBVIOUS
<1> HIDE DEF all, m, n
<1>3. ASSUME NEW i \in Switches(all), i > l PROVE FALSE
  <2>1. i \in 1..(m + n) /\ i < m + n /\ all[i] = "esc" /\ all[i + 1] = "on"
    BY <1>1, <1>3 DEF Switches
  <2>2. CASE i < m
    <3>1. s[i] = "esc" /\ s[i + 1] = "on" /\ i \in 1..m
      BY <1>1, <2>1, <2>2
    <3>2. i \in Switches(s)
      BY <2>2, <3>1 DEF Switches, m
    <3> QED BY <1>3, <3>2, <2>1
  <2>3. CASE i = m
    <3>1. s[m] = "esc" /\ n > 0 /\ all[m + 1] = out[1]
      BY <1>1, <2>1, <2>3
    <3>2. m > l /\ out[1] = "on"
      BY <1>3, <2>1, <2>3, <3>1
    <3> QED BY <1>2, <2>1, <2>3, <3>1, <3>2 DEF m
  <2>4. CASE i > m
    <3>1. i - m \in 1..n /\ i - m < n
      BY <1>1, <2>1, <2>4
    <3>2. out[i - m] = "esc" /\ out[i - m + 1] = "on"
      <4>1. (i - m) + 1 \in 1..n /\ m + (i - m) = i /\ m + ((i - m) + 1) = i + 1
        BY <1>1, <2>1, <3>1
      <4> DEFINE j == i - m
      <4>2. j \in 1..n /\ j + 1 \in 1..n /\ m + j = i /\ m + (j + 1) = i + 1
        BY <3>1, <4>1
      <4> HIDE DEF j
      <4>3. all[m + j] = out[j] /\ all[m + (j + 1)] = out[j + 1]
        BY <1>1, <4>2
      <4>4. out[j] = "esc" /\ out[j + 1] = "on"
        BY <2>1, <4>2, <4>3
      <4> QED BY <4>4 DEF j
    <3>3. i - m \in Switches(out)
      BY <3>1, <3>2 DEF Switches, n
    <3> QED BY <3>3
  <2> QED BY <1>1, <2>1, <2>2, <2>3, <2>4
<1>4. \A i \in Switches(all) : i \in Nat
  BY <1>1 DEF Switches
<1> QED BY <1>3, <1>4 DEF all

\* What a lingering gate does with a chunk keeps back what it has to.
LEMMA ChunkIsShielded ==
  ASSUME IInv, Shielded, gate.kind = "linger", links' = links,
         NEW chunk \in Seq(Tokens), Writes(LingerChunk(gate, chunk))
  PROVE  Shielded'
<1> DEFINE r == LingerChunk(gate, chunk)
           l == links[Len(links)]
<1>1. /\ SoundGate(gate) /\ screen \in Seq(Tokens) /\ links # <<>> /\ links \in Seq(Nat)
      /\ \A i \in Switches(screen) : i <= l
      /\ ~gate.blocked =>
           /\ gate.held \in {<<>>, <<"esc">>}
           /\ Len(screen) > l /\ screen[Len(screen)] = "esc" => gate.held = <<"esc">>
  BY GateFacts DEF Shielded, IInv, TypeOK
<1>2. Shields(gate, r) /\ r.out \in Seq(Tokens)
  BY <1>1, LingerChunkShields, LingerChunkKeeps
<1>3. gate' = r.gate /\ screen' = screen \o r.out
  BY DEF Writes
<1>4. l \in Nat /\ links'[Len(links')] = l
  BY <1>1
<1> HIDE DEF r, l
<1>5. Len(screen) > l /\ screen[Len(screen)] = "esc" /\ r.out # <<>> => r.out[1] = "esc"
  BY <1>1, <1>2 DEF Shields
<1>6. \A i \in Switches(screen') : i <= l
  BY <1>1, <1>2, <1>3, <1>4, <1>5, NoSwitchAdded DEF Shields
<1>7. ASSUME ~gate'.blocked
      PROVE  /\ gate'.held \in {<<>>, <<"esc">>}
             /\ Len(screen') > l /\ screen'[Len(screen')] = "esc" => gate'.held = <<"esc">>
  <2>1. /\ ~gate.blocked /\ gate'.held \in {<<>>, <<"esc">>}
        /\ r.out # <<>> /\ r.out[Len(r.out)] = "esc" => gate'.held = <<"esc">>
        /\ r.out = <<>> /\ gate.held = <<"esc">> => gate'.held = <<"esc">>
    BY <1>2, <1>3, <1>7 DEF Shields
  <2>2. CASE r.out = <<>>
    <3>1. screen' = screen
      BY <1>1, <1>3, <2>2, NothingBeforeOrAfter
    <3> QED BY <1>1, <2>1, <2>2, <3>1
  <2>3. CASE r.out # <<>>
    <3>1. screen'[Len(screen')] = r.out[Len(r.out)]
      BY <1>1, <1>2, <1>3, <2>3, LastOfConcat
    <3> QED BY <2>1, <2>3, <3>1
  <2> QED BY <2>1, <2>2, <2>3
<1> QED BY <1>1, <1>4, <1>6, <1>7 DEF Shielded

\* A new link's gate lets out what was held up to the first switch.
LEMMA LinkShields ==
  ASSUME IInv, Shielded, Link
  PROVE  Shielded'
<1> DEFINE r == StartLinger(gate)
           l == Len(screen)
<1>1. /\ SoundGate(gate) /\ screen \in Seq(Tokens) /\ links \in Seq(Nat) /\ l \in Nat
      /\ gate.held \in Seq(Tokens)
  BY GateFacts DEF IInv, TypeOK
<1>2. /\ gate' = r.gate /\ screen' = screen \o r.out
      /\ links' = Append(links, l)
  BY DEF Link, Writes
<1> HIDE DEF l
<1>3. links' # <<>> /\ links'[Len(links')] = l
  <2>1. Len(links) \in Nat /\ Len(links') = Len(links) + 1 /\ links' \in Seq(Nat)
    BY <1>1, <1>2
  <2>2. links' = Append(links, l) /\ links \in Seq(Nat) /\ l \in Nat
    BY <1>1, <1>2
  <2>3. links'[Len(links) + 1] = l
    BY <2>2, AppendProperties, Zenon
  <2> QED BY <2>1, <2>3
<1>4. (\A i \in Switches(screen) : i <= l) /\ ~(Len(screen) > l)
  BY <1>1 DEF Switches, l
<1>5. CASE gate.kind = "linger"
  <2> DEFINE again == [gate EXCEPT !.passed = FALSE]
  <2>1. StartLinger(gate) = [gate |-> again, out |-> <<>>]
    BY <1>5, Zenon DEF StartLinger
  <2>2. again.held = gate.held /\ again.blocked = gate.blocked
    BY <1>1 DEF SoundGate, Gates
  <2> HIDE DEF again
  <2>3. gate' = again /\ screen' = screen \o <<>>
    <3>1. r.gate = again /\ r.out = <<>>
      BY <2>1, ResultFields, ZenonT(40)
    <3> QED BY <1>2, <3>1, Zenon
  <2>4. screen' = screen
    BY <1>1, <2>3, NothingBeforeOrAfter
  <2>5. gate'.held = gate.held /\ gate'.blocked = gate.blocked
    BY <2>2, <2>3
  <2> QED BY <1>1, <1>3, <1>4, <1>5, <2>4, <2>5 DEF Shielded
<1>6. CASE gate.kind # "linger"
  <2> DEFINE fresh == [kind |-> "linger", held |-> <<>>, blocked |-> FALSE,
                       passed |-> FALSE]
             s == LingerChunk(fresh, gate.held)
  <2>1. SoundGate(fresh) /\ fresh.held = <<>> /\ fresh.kind = "linger" /\ ~fresh.blocked
    BY <1>1, NothingBeforeOrAfter DEF SoundGate, Gates
  <2>2. r = s
    BY <1>6 DEF StartLinger
  <2> HIDE DEF fresh
  <2>3. Shields(fresh, s) /\ s.out \in Seq(Tokens)
    BY <1>1, <2>1, LingerChunkShields, LingerChunkKeeps
  <2> HIDE DEF s, r
  <2>4. \A i \in Switches(screen') : i <= l
    <3>1. Switches(s.out) = {} /\ screen' = screen \o s.out
      BY <1>2, <2>2, <2>3 DEF Shields
    <3> QED BY <1>1, <1>4, <2>3, <3>1, NoSwitchAdded
  <2>5. ASSUME ~gate'.blocked
        PROVE  /\ gate'.held \in {<<>>, <<"esc">>}
               /\ Len(screen') > l /\ screen'[Len(screen')] = "esc"
                    => gate'.held = <<"esc">>
    <3>1. /\ gate'.held \in {<<>>, <<"esc">>}
          /\ s.out # <<>> /\ s.out[Len(s.out)] = "esc" => gate'.held = <<"esc">>
      BY <1>2, <2>2, <2>3, <2>5 DEF Shields
    <3>2. CASE s.out = <<>>
      <4>1. screen' = screen
        BY <1>1, <1>2, <2>2, <3>2, NothingBeforeOrAfter
      <4> QED BY <1>4, <3>1, <4>1
    <3>3. CASE s.out # <<>>
      <4>1. screen'[Len(screen')] = s.out[Len(s.out)]
        BY <1>1, <1>2, <2>2, <2>3, <3>3, LastOfConcat
      <4> QED BY <3>1, <3>3, <4>1
    <3> QED BY <3>1, <3>2, <3>3
  <2> QED BY <1>3, <2>4, <2>5 DEF Shielded
<1> QED BY <1>5, <1>6

\* Commands print and clean-ups are printed through the gate, whatever its kind.
LEMMA OutputIsShielded ==
  ASSUME IInv, Shielded, links' = links, NEW chunk \in Seq(Tokens),
         Writes(ChildOutput(gate, chunk))
  PROVE  Shielded'
<1>1. CASE gate.kind = "linger"
  <2>1. Writes(LingerChunk(gate, chunk))
    BY <1>1 DEF ChildOutput
  <2> QED BY <1>1, <2>1, ChunkIsShielded
<1>2. CASE gate.kind # "linger"
  <2>1. gate'.kind = gate.kind
    BY GateFacts, ChildOutputKeeps DEF Writes
  <2> QED BY <1>2, <2>1 DEF Shielded
<1> QED BY <1>1, <1>2

\* Every step shields a link that lingers.
LEMMA ShieldedStep ==
  ASSUME IInv, Shielded, [Next]_vars
  PROVE  Shielded'
<1>1. ASSUME gate' = gate, screen' = screen, links' = links
      PROVE  Shielded'
  BY <1>1 DEF Shielded
<1>2. ASSUME gate' = Opened(gate).gate
      PROVE  Shielded'
  BY <1>2 DEF Opened, Shielded
<1>3. ASSUME NEW c \in Commands, HandOver(c)
      PROVE  Shielded'
  <2>1. Writes(ChildOutput(gate, reader[c].chunk)) /\ links' = links
    BY <1>3 DEF HandOver
  <2> QED BY <2>1, ReaderChunk, OutputIsShielded
<1>4. CASE Restarts
  <2>1. Writes(ChildOutput(gate, reset)) /\ links' = links /\ reset \in Seq(Tokens)
    BY <1>4 DEF Restarts, IInv, TypeOK
  <2> QED BY <2>1, OutputIsShielded
<1>5. CASE Link
  BY <1>5, LinkShields
<1>6. CASE LingerPasses
  <2>1. gate' = [gate EXCEPT !.passed = TRUE] /\ screen' = screen /\ links' = links
    BY <1>6 DEF LingerPasses
  <2>2. gate'.kind = gate.kind /\ gate'.held = gate.held /\ gate'.blocked = gate.blocked
    BY <2>1, GateFacts DEF SoundGate, Gates
  <2> QED BY <2>1, <2>2 DEF Shielded
<1>7. CASE GiveUp \/ EndLinger \/ Drained \/ RestoreReleases \/ RestoreCleans
  BY <1>1, <1>2, <1>7 DEF GiveUp, EndLinger, Drained, RestoreReleases, RestoreCleans, Writes
<1>8. ASSUME NEW c \in Commands, Read(c) \/ EndOfOutput(c)
      PROVE  Shielded'
  BY <1>1, <1>8 DEF Read, EndOfOutput
<1>9. CASE CommandEnds \/ CleansForRestart \/ UNCHANGED vars
  BY <1>1, <1>9 DEF CommandEnds, CleansForRestart, vars
<1> QED BY <1>3, <1>4, <1>5, <1>6, <1>7, <1>8, <1>9 DEF Next

\* A full-screen command does not cover a link before its time, for any number of
\* links, chunks and timers, and wherever a switch is cut in two.
THEOREM LinksStayReadable == Spec => []LinkStaysReadable
<1>1. Init => Shielded
  BY DEF Init, Shielded
<1>2. Shielded => LinkStaysReadable
  BY DEF Shielded, LinkStaysReadable
<1> QED BY <1>1, <1>2, ShieldedStep, Invariant, PTL DEF Spec

=============================================================================
