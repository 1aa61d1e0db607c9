----------------------------- MODULE Supervisor -----------------------------
(***************************************************************************)
(* The process around a command (src/main.rs, run_pty): it starts the      *)
(* command in a pty, follows the size of its own terminal, passes          *)
(* keystrokes on, asks whether to restart a command that has exited, and   *)
(* ends with it or on a signal.  Keystrokes of the terminal and of viewers *)
(* arrive on one channel; a thread (pump_writes) takes them off and        *)
(* delivers them to a sink it shares with run_pty under a lock.            *)
(*                                                                         *)
(* A keystroke is a chunk as it was read: its number in the order of       *)
(* arrival, and whether it is a lone r.  A size is the number of resizes.  *)
(* What commands print is in LocalTerminal.                                *)
(***************************************************************************)
EXTENDS Integers, Sequences

CONSTANTS MaxCommands, MaxKeys, MaxResizes, \* bounds
          Codes                             \* exit codes of commands

ASSUME SupervisorAssumption ==
  /\ MaxCommands \in Nat \ {0} /\ MaxKeys \in Nat /\ MaxResizes \in Nat
  /\ Codes # {} /\ Codes \cap {"term", "hup", "none"} = {}

VARIABLES
  tty,      \* the terminal's size; whether SIGWINCH is pending
  signals,  \* SIGTERM and SIGHUP pending
  main,     \* the locals of run_pty
  cmd,      \* per command: its process and its pty
  sink,     \* Input: where keystrokes go
  writing,  \* the keystroke whose write to a pty does not return
  queue,    \* the channel of keystrokes
  prompt,   \* the channel from the sink to the prompt
  told,     \* the size in the newest event
  typed,    \* keystrokes so far
  log,      \* history: which keystroke was written to which command
  asked,    \* history: per command, the keystroke that started it
  missed    \* history: a resize came before the handler of SIGWINCH

vars == <<tty, signals, main, cmd, sink, writing, queue, prompt, told, typed,
          log, asked, missed>>

Commands == 1..MaxCommands
Keys == [n : 1..MaxKeys, r : BOOLEAN]
NoWrite == [n |-> 0, shell |-> 1]
Sizes == 0..MaxResizes

TypeOK ==
  /\ tty \in [size : Sizes, winch : BOOLEAN]
  /\ signals \subseteq {"term", "hup"}
  /\ main \in [phase : {"start", "run", "ended", "prompt", "ask", "spawn", "attach",
                        "leave", "done"},
               shell : Commands,                    \* whose master, killer and exit_rx
               code : Codes \cup {"term", "hup", "none"}]
  /\ cmd \in [Commands -> [state : {"none", "alive", "exited"}, size : Sizes,
                           code : Codes \cup {"none"}, killed : BOOLEAN]]
  /\ sink \in [kind : {"pty", "prompt", "closed"}, shell : Commands]
  /\ writing \in [n : 0..MaxKeys, shell : Commands]
  /\ queue \in Seq(Keys) /\ prompt \in Seq(Keys)
  /\ told \in Sizes /\ typed \in 0..MaxKeys
  /\ log \in Seq([n : 1..MaxKeys, shell : Commands])
  /\ asked \in [Commands -> 0..MaxKeys]
  /\ missed \in BOOLEAN

Spawned(size) == [state |-> "alive", size |-> size, code |-> "none", killed |-> FALSE]

Init ==
  /\ tty = [size |-> 0, winch |-> FALSE] /\ signals = {}
  /\ main = [phase |-> "start", shell |-> 1, code |-> "none"]
  /\ cmd = [c \in Commands |->
              IF c = 1 THEN Spawned(0) ELSE [Spawned(0) EXCEPT !.state = "none"]]
  /\ sink = [kind |-> "pty", shell |-> 1]
  /\ writing = NoWrite /\ queue = <<>> /\ prompt = <<>>
  /\ told = 0 /\ typed = 0 /\ log = <<>>
  /\ asked = [c \in Commands |-> 0] /\ missed = FALSE

At(phase) == main.phase = phase
Goes(phase) == main' = [main EXCEPT !.phase = phase]
Leaves(code) == main' = [main EXCEPT !.phase = "leave", !.code = code]

(* The newest command. *)
Newest == CHOOSE c \in Commands :
            cmd[c].state # "none" /\ \A d \in Commands : d > c => cmd[d].state = "none"

(***************************************************************************)
(* The world: the terminal, signals, fingers, the command.                 *)
(***************************************************************************)

Resized ==
  /\ ~At("done") /\ tty.size < MaxResizes
  /\ tty' = [size |-> tty.size + 1, winch |-> ~At("start")]
  /\ missed' = (missed \/ At("start"))
  /\ UNCHANGED <<signals, main, cmd, sink, writing, queue, prompt, told, typed, log, asked>>

(* Before there are handlers a signal ends the process. *)
Signal(s) ==
  /\ main.phase \notin {"start", "done"}
  /\ signals' = signals \cup {s}
  /\ UNCHANGED <<tty, main, cmd, sink, writing, queue, prompt, told, typed, log, asked, missed>>

Types ==
  /\ ~At("done") /\ typed < MaxKeys
  /\ typed' = typed + 1
  /\ \E r \in BOOLEAN : queue' = Append(queue, [n |-> typed + 1, r |-> r])
  /\ UNCHANGED <<tty, signals, main, cmd, sink, writing, prompt, told, log, asked, missed>>

CommandExits(c) ==
  /\ ~At("done") /\ cmd[c].state = "alive"
  /\ \E code \in Codes : cmd' = [cmd EXCEPT ![c].state = "exited", ![c].code = code]
  /\ UNCHANGED <<tty, signals, main, sink, writing, queue, prompt, told, typed, log, asked, missed>>

(***************************************************************************)
(* pump_writes.  It holds the sink's lock while a write blocks.            *)
(***************************************************************************)

Write == [n |-> Head(queue).n, shell |-> sink.shell]

\* A write is assumed to fail only when there is nobody left to write to.
WriteFails(w) ==
  /\ cmd[w.shell].state = "exited"
  /\ sink' = [sink EXCEPT !.kind = "closed"]

ToPty ==
  /\ sink.kind = "pty"
  /\ \/ log' = Append(log, Write) /\ UNCHANGED <<sink, writing>>
     \/ writing' = Write /\ UNCHANGED <<sink, log>>
     \/ WriteFails(Write) /\ UNCHANGED <<writing, log>>
  /\ UNCHANGED prompt

ToPrompt ==
  /\ sink.kind = "prompt"
  /\ prompt' = Append(prompt, Head(queue))
  /\ UNCHANGED <<sink, writing, log>>

ToNobody ==
  /\ sink.kind = "closed"
  /\ UNCHANGED <<sink, writing, prompt, log>>

Deliver ==
  /\ ~At("done") /\ writing = NoWrite /\ queue # <<>>
  /\ queue' = Tail(queue)
  /\ ToPty \/ ToPrompt \/ ToNobody
  /\ UNCHANGED <<tty, signals, main, cmd, told, typed, asked, missed>>

WriteReturns ==
  /\ ~At("done") /\ writing # NoWrite
  /\ \/ log' = Append(log, writing) /\ UNCHANGED sink
     \/ WriteFails(writing) /\ UNCHANGED log
  /\ writing' = NoWrite
  /\ UNCHANGED <<tty, signals, main, cmd, queue, prompt, told, typed, asked, missed>>

(***************************************************************************)
(* run_pty.                                                                *)
(***************************************************************************)

Listens ==
  /\ At("start") /\ Goes("run")
  /\ UNCHANGED <<tty, signals, cmd, sink, writing, queue, prompt, told, typed, log, asked, missed>>

(* winch.recv, in the select loop: the pty and the viewers follow. *)
Winch ==
  /\ At("run") /\ tty.winch
  /\ tty' = [tty EXCEPT !.winch = FALSE]
  /\ cmd' = [cmd EXCEPT ![main.shell].size = tty.size]
  /\ told' = tty.size /\ missed' = FALSE
  /\ UNCHANGED <<signals, main, sink, writing, queue, prompt, typed, log, asked>>

\* Mutant: the killer is that of the first command.
TerminateFirst(s) ==
  /\ At("run") /\ s \in signals
  /\ cmd' = [cmd EXCEPT ![1].killed = TRUE]
  /\ Leaves(s)
  /\ UNCHANGED <<tty, signals, sink, writing, queue, prompt, told, typed, log, asked, missed>>

\* Mutant: tcomp waits for the command to obey.
TerminateWaits(s) ==
  /\ At("run") /\ s \in signals
  /\ cmd' = [cmd EXCEPT ![main.shell].killed = TRUE]
  /\ UNCHANGED <<tty, signals, main, sink, writing, queue, prompt, told, typed, log, asked, missed>>

Terminate(s) ==
  /\ At("run") /\ s \in signals
  /\ cmd' = [cmd EXCEPT ![main.shell].killed = TRUE]
  /\ Leaves(s)
  /\ UNCHANGED <<tty, signals, sink, writing, queue, prompt, told, typed, log, asked, missed>>

Exited ==
  /\ At("run") /\ cmd[main.shell].state = "exited"
  /\ main' = [main EXCEPT !.phase = "ended", !.code = cmd[main.shell].code]
  /\ UNCHANGED <<tty, signals, cmd, sink, writing, queue, prompt, told, typed, log, asked, missed>>

(* The output is drained; then --exit-on-end, or the prompt is shown. *)
Drained ==
  /\ At("ended")
  /\ Goes("prompt") \/ Goes("leave")
  /\ UNCHANGED <<tty, signals, cmd, sink, writing, queue, prompt, told, typed, log, asked, missed>>

\* Mutant: a write does not hold the lock.
AsksForKeysUnlocked ==
  /\ At("prompt") /\ Goes("ask")
  /\ sink' = [sink EXCEPT !.kind = "prompt"]
  /\ prompt' = <<>>
  /\ UNCHANGED <<tty, signals, cmd, writing, queue, told, typed, log, asked, missed>>

(* input.keys needs the lock. *)
AsksForKeys ==
  /\ At("prompt") /\ writing = NoWrite /\ Goes("ask")
  /\ sink' = [sink EXCEPT !.kind = "prompt"]
  /\ prompt' = <<>>
  /\ UNCHANGED <<tty, signals, cmd, writing, queue, told, typed, log, asked, missed>>

WinchAsking ==
  /\ At("ask") /\ tty.winch
  /\ tty' = [tty EXCEPT !.winch = FALSE]
  /\ told' = tty.size /\ missed' = FALSE
  /\ UNCHANGED <<signals, main, cmd, sink, writing, queue, prompt, typed, log, asked>>

TerminateAsking(s) ==
  /\ At("ask") /\ s \in signals
  /\ Leaves(s)
  /\ UNCHANGED <<tty, signals, cmd, sink, writing, queue, prompt, told, typed, log, asked, missed>>

TimesOut ==
  /\ At("ask") /\ Leaves(main.code)
  /\ UNCHANGED <<tty, signals, cmd, sink, writing, queue, prompt, told, typed, log, asked, missed>>

\* Mutant: the prompt looks at the keystroke and leaves it to its command.
AnswerPeeks ==
  /\ At("ask") /\ prompt # <<>>
  /\ queue' = prompt \o queue /\ prompt' = <<>>
  /\ IF Head(prompt).r THEN Goes("spawn") ELSE Leaves(main.code)
  /\ asked' = IF Head(prompt).r /\ main.shell < MaxCommands
              THEN [asked EXCEPT ![main.shell + 1] = Head(prompt).n] ELSE asked
  /\ UNCHANGED <<tty, signals, cmd, sink, writing, told, typed, log, missed>>

Answer ==
  /\ At("ask") /\ prompt # <<>>
  /\ prompt' = Tail(prompt)
  /\ IF Head(prompt).r THEN Goes("spawn") ELSE Leaves(main.code)
  /\ asked' = IF Head(prompt).r /\ main.shell < MaxCommands
              THEN [asked EXCEPT ![main.shell + 1] = Head(prompt).n] ELSE asked
  /\ UNCHANGED <<tty, signals, cmd, sink, writing, queue, told, typed, log, missed>>

\* Mutant: a restarted command gets the size tcomp was started with.
SpawnAsStarted ==
  /\ At("spawn") /\ main.shell < MaxCommands /\ Goes("attach")
  /\ cmd' = [cmd EXCEPT ![main.shell + 1] = Spawned(0)]
  /\ UNCHANGED <<tty, signals, sink, writing, queue, prompt, told, typed, log, asked, missed>>

Spawn ==
  /\ At("spawn") /\ main.shell < MaxCommands /\ Goes("attach")
  /\ cmd' = [cmd EXCEPT ![main.shell + 1] = Spawned(tty.size)]
  /\ UNCHANGED <<tty, signals, sink, writing, queue, prompt, told, typed, log, asked, missed>>

SpawnFails ==
  /\ At("spawn") /\ Leaves(main.code)
  /\ UNCHANGED <<tty, signals, cmd, sink, writing, queue, prompt, told, typed, log, asked, missed>>

(* input.attach needs the lock; the size sent is the one spawned with. *)
Attach ==
  /\ At("attach") /\ writing = NoWrite
  /\ main' = [phase |-> "run", shell |-> main.shell + 1, code |-> "none"]
  /\ sink' = [kind |-> "pty", shell |-> main.shell + 1]
  /\ prompt' = <<>>
  /\ told' = cmd[main.shell + 1].size
  /\ UNCHANGED <<tty, signals, cmd, writing, queue, typed, log, asked, missed>>

(* Event::Exit is sent and the client waited for. *)
Leave ==
  /\ At("leave") /\ Goes("done")
  /\ UNCHANGED <<tty, signals, cmd, sink, writing, queue, prompt, told, typed, log, asked, missed>>

RunPty ==
  \/ Listens \/ Winch \/ Exited \/ Drained \/ AsksForKeys \/ WinchAsking
  \/ TimesOut \/ Answer \/ Spawn \/ SpawnFails \/ Attach \/ Leave
  \/ \E s \in signals : Terminate(s) \/ TerminateAsking(s)

World ==
  \/ Resized \/ Types \/ \E s \in {"term", "hup"} : Signal(s)
  \/ \E c \in Commands : CommandExits(c)

Next == RunPty \/ Deliver \/ WriteReturns \/ World

Spec == Init /\ [][Next]_vars

(* run_pty is a task that runs on.  Nothing makes a write return. *)
FairSpec == Spec /\ WF_vars(RunPty)

(***************************************************************************)
(* Properties.                                                             *)
(***************************************************************************)

(* Through resizes at any moment, the prompt and restarts, the newest       *)
(* command's pty and the viewers have the terminal's size as soon as no    *)
(* SIGWINCH is pending.  A resize before the handler is installed is not   *)
(* noticed until the next one.                                             *)
SizesAgree ==
  ~tty.winch /\ ~missed =>
    /\ cmd[Newest].state = "alive" => cmd[Newest].size = tty.size
    /\ told = tty.size

(* Keystrokes reach commands in the order they were typed, none twice, and  *)
(* none that was typed before the restart reaches the restarted command:   *)
(* type-ahead for a command that exited does not run in the next one       *)
(* (src/main.rs, Input).                                                   *)
KeysStayWithTheirCommand ==
  \A i \in DOMAIN log :
    /\ log[i].n > asked[log[i].shell]
    /\ \A j \in DOMAIN log : i < j => log[i].n < log[j].n

(* A write that ends late does not leave the prompt deaf, or a restarted    *)
(* command: "Where keystrokes go: the live shell, or the restart prompt    *)
(* between shells" (src/main.rs:250).                                      *)
SinkFollows ==
  /\ At("ask") => sink.kind = "prompt"
  /\ At("run") /\ cmd[main.shell].state = "alive"
       => sink = [kind |-> "pty", shell |-> main.shell]

(* tcomp does not leave a command running that it did not tell to stop, and *)
(* its exit code is that of the newest command, or the signal's.           *)
EndsWithTheCommand ==
  At("done") =>
    \/ main.code \in {"term", "hup"} /\ (cmd[Newest].state = "exited" \/ cmd[Newest].killed)
    \/ cmd[Newest].state = "exited" /\ main.code = cmd[Newest].code

(* run_pty waits for the lock that a blocked write holds. *)
Blocked == main.phase \in {"prompt", "attach"} /\ writing # NoWrite

(* A signal ends tcomp at the prompt and during a restart too, with one     *)
(* exception the code has: a write that does not return.                   *)
SignalEndsIt == signals # {} ~> At("done") \/ Blocked

=============================================================================
