---------------------------- MODULE LocalTerminal ----------------------------
(***************************************************************************)
(* What the terminal tcomp runs in shows: the output threads of the        *)
(* commands (src/main.rs, pump_output), the gate that holds their output   *)
(* until the watch link can be read (src/term.rs), the observer of the     *)
(* modes they switch on (src/modes.rs), and the clean-up before a restart  *)
(* and at the end.  The rest of run_pty is the Supervisor's.               *)
(*                                                                         *)
(* Output is a sequence of tokens, cut into chunks anywhere between two:   *)
(* "esc" is ESC [ ? 10, which "on" (49h) or "off" (49l) completes to the   *)
(* switch to the alternate screen and back; "push" and "pop" move the      *)
(* depth of the keyboard protocol.  A "pop" of a level that was never      *)
(* pushed does nothing, like any other text.                               *)
(***************************************************************************)
EXTENDS Integers, Sequences, SequencesExt

CONSTANTS MaxCommands, MaxTokens, MaxLinks, \* bounds: commands one after
                                            \* another, tokens in all, links
          MaxPops                           \* levels that cleanup pops at most

ASSUME TerminalAssumption ==
  /\ MaxCommands \in Nat \ {0} /\ MaxTokens \in Nat
  /\ MaxLinks \in Nat /\ MaxPops \in Nat

VARIABLES
  phase,    \* where run_pty, restore and the exit stand
  gen,      \* the number of the newest command
  reader,   \* per command: its output thread
  left,     \* bound: tokens the commands may still print
  modes,    \* ACTIVE and KITTY_DEPTH
  reset,    \* the local of run_pty: the clean-up before a restart
  gate,     \* OUTPUT.gate
  timers,   \* the sleeping tasks that open the gate
  screen,   \* what the terminal was sent, notes apart
  links,    \* the lengths of screen at which a note with a link was printed
  given,    \* history: what child_output and restore were given
  outlived  \* history: a thread was not waited for any longer

vars == <<phase, gen, reader, left, modes, reset, gate, timers, screen, links, given, outlived>>

Commands == 1..MaxCommands
Tokens == {"esc", "on", "off", "push", "pop"}

TypeOK ==
  /\ phase \in {"run", "ended", "prompt", "clean", "restore", "done"}
  /\ gen \in Commands
  /\ reader \in [Commands -> [state : {"none", "reading", "handing", "done"},
                              chunk : Seq(Tokens), pending : Seq(Tokens)]]
  /\ left \in 0..MaxTokens
  /\ modes \in [alt : BOOLEAN, depth : Nat]
  /\ reset \in Seq(Tokens)
  /\ gate \in [kind : {"waiting", "linger", "open"}, held : Seq(Tokens),
               blocked : BOOLEAN, passed : BOOLEAN]
  /\ timers \in [giveUp : BOOLEAN, old : 0..MaxLinks, last : BOOLEAN]
  /\ screen \in Seq(Tokens) /\ links \in Seq(Nat) /\ given \in Seq(Tokens)
  /\ outlived \in BOOLEAN

Reading == [state |-> "reading", chunk |-> <<>>, pending |-> <<>>]

Init ==
  /\ phase = "run" /\ gen = 1
  /\ reader = [c \in Commands |-> IF c = 1 THEN Reading ELSE [Reading EXCEPT !.state = "none"]]
  /\ left = MaxTokens
  /\ modes = [alt |-> FALSE, depth |-> 0]
  /\ reset = <<>>
  /\ gate = [kind |-> "waiting", held |-> <<>>, blocked |-> FALSE, passed |-> FALSE]
  /\ timers = [giveUp |-> TRUE, old |-> 0, last |-> FALSE]
  /\ screen = <<>> /\ links = <<>> /\ given = <<>> /\ outlived = FALSE

(***************************************************************************)
(* The gate.  Its operations return the new gate and what they write.      *)
(***************************************************************************)

(* Where switches to the alternate screen are in s. *)
Switches(s) == {i \in 1..Len(s) : i < Len(s) /\ s[i] = "esc" /\ s[i + 1] = "on"}

AltScreenAt(s) == CHOOSE i \in Switches(s) : \A j \in Switches(s) : i <= j

\* Mutant: a switch is looked for within chunks only.
AltPrefixLenOfNone(s) == 0

(* The tail of s that may be the beginning of such a switch. *)
AltPrefixLen(s) == IF s # <<>> /\ s[Len(s)] = "esc" THEN 1 ELSE 0

Opened(g) ==
  [gate |-> [kind |-> "open", held |-> <<>>, blocked |-> FALSE, passed |-> FALSE],
   out |-> g.held]

LingerChunk(g, chunk) ==
  LET all == g.held \o chunk
      cut == IF g.blocked THEN 0
             ELSE IF Switches(all) # {} THEN AltScreenAt(all) - 1
             ELSE Len(all) - AltPrefixLen(all)
  IN  [gate |-> [g EXCEPT !.held = SubSeq(all, cut + 1, Len(all)),
                          !.blocked = g.blocked \/ Switches(all) # {}],
       out |-> SubSeq(all, 1, cut)]

ChildOutput(g, chunk) ==
  CASE g.kind = "waiting" -> [gate |-> [g EXCEPT !.held = @ \o chunk], out |-> <<>>]
    [] g.kind = "linger"  -> LingerChunk(g, chunk)
    [] g.kind = "open"    -> [gate |-> g, out |-> chunk]

\* Mutant: a link that finds held output forgets it.
StartLingerEmpty(g) ==
  [gate |-> [kind |-> "linger", held |-> <<>>, blocked |-> FALSE, passed |-> FALSE],
   out |-> <<>>]

StartLinger(g) ==
  LET fresh == [kind |-> "linger", held |-> <<>>, blocked |-> FALSE, passed |-> FALSE]
  IN  IF g.kind = "linger" THEN [gate |-> [g EXCEPT !.passed = FALSE], out |-> <<>>]
      ELSE LingerChunk(fresh, g.held)

(* The gate becomes what an operation returns, the terminal gets the rest. *)
Writes(result) == gate' = result.gate /\ screen' = screen \o result.out

(***************************************************************************)
(* The observer.  It takes complete sequences off what is pending, and     *)
(* keeps a partial tail for the next chunk.                                *)
(***************************************************************************)

\* Mutant: fetch_sub in place of the saturating update.
TakesUnderflowing(seen, token) ==
  CASE token = "esc"  -> [seen EXCEPT !.pending = <<"esc">>]
    [] token \in {"on", "off"} /\ seen.pending # <<>> ->
         [seen EXCEPT !.alt = (token = "on"), !.pending = <<>>]
    [] token = "push" -> [seen EXCEPT !.depth = @ + 1]
    [] token = "pop"  -> [seen EXCEPT !.depth = @ - 1]
    [] OTHER -> seen

Takes(seen, token) ==
  CASE token = "esc"  -> [seen EXCEPT !.pending = <<"esc">>]
    [] token \in {"on", "off"} /\ seen.pending # <<>> ->
         [seen EXCEPT !.alt = (token = "on"), !.pending = <<>>]
    [] token = "push" -> [seen EXCEPT !.depth = @ + 1]
    [] token = "pop" /\ seen.depth > 0 -> [seen EXCEPT !.depth = @ - 1]
    [] OTHER -> seen

(* A chunk is one token or two. *)
Observed(pending, chunk) ==
  LET first == Takes([pending |-> pending, alt |-> modes.alt, depth |-> modes.depth],
                     chunk[1])
  IN  IF Len(chunk) = 1 THEN first ELSE Takes(first, chunk[2])

\* Mutant: restore forgets the modes without writing what undoes them when
\* the command left the alternate screen itself.
CleanupOfScreenOnly ==
  IF modes.alt THEN <<"esc", "off">> ELSE <<>>

(* What undoes the modes in force; the caller forgets them. *)
Cleanup ==
  [i \in 1..(IF modes.depth < MaxPops THEN modes.depth ELSE MaxPops) |-> "pop"]
  \o (IF modes.alt THEN <<"esc", "off">> ELSE <<>>)

Clean == [alt |-> FALSE, depth |-> 0]

(***************************************************************************)
(* Output threads.                                                         *)
(***************************************************************************)

(* What may follow: a command does not break off a sequence it began. *)
MayFollow(tail) == IF tail = <<"esc">> THEN {"on", "off"} ELSE {"esc", "push", "pop"}

Chunks(tail) ==
  UNION {{<<t>>} \cup {<<t, u>> : u \in MayFollow(IF t = "esc" THEN <<t>> ELSE <<>>)}
           : t \in MayFollow(tail)}

Read(c) ==
  /\ reader[c].state = "reading" /\ phase # "done"
  /\ \E chunk \in Chunks(reader[c].pending) :
       LET seen == Observed(reader[c].pending, chunk) IN
       /\ Len(chunk) <= left
       /\ left' = left - Len(chunk)
       /\ modes' = [alt |-> seen.alt, depth |-> seen.depth]
       /\ reader' = [reader EXCEPT ![c] = [state |-> "handing", chunk |-> chunk,
                                           pending |-> seen.pending]]
  /\ UNCHANGED <<phase, gen, reset, gate, timers, screen, links, given, outlived>>

HandOver(c) ==
  /\ reader[c].state = "handing" /\ phase # "done"
  /\ Writes(ChildOutput(gate, reader[c].chunk))
  /\ given' = given \o reader[c].chunk
  /\ reader' = [reader EXCEPT ![c].state = "reading", ![c].chunk = <<>>]
  /\ UNCHANGED <<phase, gen, left, modes, reset, timers, links, outlived>>

(* Every process that had the command's terminal open has closed it. *)
EndOfOutput(c) ==
  /\ reader[c].state = "reading" /\ phase # "done"
  /\ reader' = [reader EXCEPT ![c].state = "done"]
  /\ UNCHANGED <<phase, gen, left, modes, reset, gate, timers, screen, links, given, outlived>>

(***************************************************************************)
(* The link and the tasks that open the gate.                              *)
(***************************************************************************)

\* Mutant: only the first link starts a task to end the linger.
LinkTimedOnce ==
  /\ phase # "done" /\ Len(links) < MaxLinks
  /\ links' = Append(links, Len(screen))
  /\ Writes(StartLinger(gate))
  /\ timers' = IF links = <<>> THEN [timers EXCEPT !.last = TRUE]
               ELSE [timers EXCEPT !.last = FALSE, !.old = IF timers.last THEN @ + 1 ELSE @]
  /\ UNCHANGED <<phase, gen, reader, left, modes, reset, given, outlived>>

Link ==
  /\ phase # "done" /\ Len(links) < MaxLinks
  /\ links' = Append(links, Len(screen))
  /\ Writes(StartLinger(gate))
  /\ timers' = [timers EXCEPT !.old = IF timers.last THEN @ + 1 ELSE @, !.last = TRUE]
  /\ UNCHANGED <<phase, gen, reader, left, modes, reset, given, outlived>>

GiveUp ==
  /\ phase # "done" /\ timers.giveUp
  /\ timers' = [timers EXCEPT !.giveUp = FALSE]
  /\ IF gate.kind = "waiting" THEN Writes(Opened(gate)) ELSE UNCHANGED <<gate, screen>>
  /\ UNCHANGED <<phase, gen, reader, left, modes, reset, links, given, outlived>>

LingerPasses ==
  /\ phase # "done" /\ gate.kind = "linger" /\ ~gate.passed
  /\ gate' = [gate EXCEPT !.passed = TRUE]
  /\ UNCHANGED <<phase, gen, reader, left, modes, reset, timers, screen, links, given, outlived>>

(* A link's task wakes a linger after its note, the newest link's not before *)
(* the linger is over.                                                       *)
EndLinger ==
  /\ phase # "done"
  /\ \/ timers.old > 0 /\ timers' = [timers EXCEPT !.old = @ - 1]
     \/ /\ timers.last /\ (gate.kind = "linger" => gate.passed)
        /\ timers' = [timers EXCEPT !.last = FALSE]
  /\ IF gate.kind = "linger" /\ gate.passed
     THEN Writes(Opened(gate)) ELSE UNCHANGED <<gate, screen>>
  /\ UNCHANGED <<phase, gen, reader, left, modes, reset, links, given, outlived>>

(***************************************************************************)
(* run_pty: the end of a command, restart, and the end.                    *)
(***************************************************************************)

(* It exits by itself, or because tcomp was told to stop. *)
CommandEnds ==
  /\ phase = "run" /\ phase' = "ended"
  /\ UNCHANGED <<gen, reader, left, modes, reset, gate, timers, screen, links, given, outlived>>

(* drain_output joins the thread, or gives up after half a second. *)
Drain == outlived' = (outlived \/ reader[gen].state # "done")

(* Then the prompt is put, unless tcomp was told to stop. *)
Drained ==
  /\ phase = "ended" /\ phase' = "prompt"
  /\ Drain
  /\ Writes(Opened(gate))
  /\ UNCHANGED <<gen, reader, left, modes, reset, timers, links, given>>

CleansForRestart ==
  /\ phase = "prompt" /\ gen < MaxCommands /\ phase' = "clean"
  /\ reset' = Cleanup /\ modes' = Clean
  /\ UNCHANGED <<gen, reader, left, gate, timers, screen, links, given, outlived>>

Restarts ==
  /\ phase = "clean" /\ phase' = "run" /\ gen' = gen + 1
  /\ Writes(ChildOutput(gate, reset))
  /\ given' = given \o reset /\ reset' = <<>>
  /\ reader' = [reader EXCEPT ![gen + 1] = Reading]
  /\ UNCHANGED <<left, modes, timers, links, outlived>>

(* Told to stop, no restart asked for, or it failed. *)
RestoreReleases ==
  /\ phase \in {"ended", "prompt"} /\ phase' = "restore"
  /\ IF phase = "ended" THEN Drain ELSE UNCHANGED outlived
  /\ Writes(Opened(gate))
  /\ UNCHANGED <<gen, reader, left, modes, reset, timers, links, given>>

(* The clean-up goes past the gate.  What another link may have held since *)
(* is let out by main, which restores once more and exits.                 *)
RestoreCleans ==
  /\ phase = "restore" /\ phase' = "done"
  /\ modes' = Clean
  /\ gate' = Opened(gate).gate
  /\ screen' = screen \o Cleanup \o Opened(gate).out
  /\ given' = given \o Cleanup
  /\ UNCHANGED <<gen, reader, left, reset, timers, links, outlived>>

Next ==
  \/ \E c \in Commands : Read(c) \/ HandOver(c) \/ EndOfOutput(c)
  \/ Link \/ GiveUp \/ LingerPasses \/ EndLinger
  \/ CommandEnds \/ Drained \/ CleansForRestart \/ Restarts
  \/ RestoreReleases \/ RestoreCleans

Spec == Init /\ [][Next]_vars

(* Timers fire. *)
Fairness == WF_vars(GiveUp) /\ WF_vars(LingerPasses) /\ WF_vars(EndLinger)

FairSpec == Spec /\ Fairness

(***************************************************************************)
(* Properties.                                                             *)
(***************************************************************************)

(* What a terminal makes of the tokens it is sent. *)
Modes(s) ==
  LET after == FoldLeft(LAMBDA acc, token :
        [half  |-> token = "esc",
         alt   |-> IF acc.half /\ token \in {"on", "off"} THEN token = "on" ELSE acc.alt,
         depth |-> CASE token = "push" -> acc.depth + 1
                     [] token = "pop" /\ acc.depth > 0 -> acc.depth - 1
                     [] OTHER -> acc.depth],
        [half |-> FALSE, alt |-> FALSE, depth |-> 0], s)
  IN  [alt |-> after.alt, depth |-> after.depth]

(* A note was printed in the middle of a sequence, which broke it. *)
Torn == \E i \in DOMAIN links : links[i] > 0 /\ screen[links[i]] = "esc"

(* Whatever notes, timers, exits and restarts do to the gate, the terminal  *)
(* has been sent a command's output in its order and from its beginning,   *)
(* and the gate holds the rest.  (The clean-up at the end passes the gate, *)
(* so it may overtake what a thread nobody waited for hands over then.)    *)
InOrder == (phase = "done" => ~outlived) => screen \o gate.held = given

(* A link on the screen is not covered by a full-screen command before it   *)
(* has been there for LINK_LINGER, also when the switch comes in pieces,   *)
(* was held already, or another link follows (src/term.rs, linger_chunk).  *)
LinkStaysReadable ==
  gate.kind = "linger" /\ ~gate.passed
    => \A i \in Switches(screen) : i <= links[Len(links)]

(* A restarted command and the shell tcomp was started from get a terminal  *)
(* without the modes of the command before, however that one ended         *)
(* (src/modes.rs, cleanup; src/term.rs, restore).                          *)
LeftClean ==
  [][phase' \in {"run", "done"} \ {phase} /\ ~outlived /\ ~Torn'
       => Modes(screen' \o gate'.held) = Clean]_vars

(* Output does not stay behind the gate: not for want of a link, nor of the *)
(* rest of a sequence, nor because of links that come after one another.   *)
OutputAppears == gate.held # <<>> ~> gate.held = <<>>

=============================================================================
