-------------------------- MODULE SupervisorProofs --------------------------
(***************************************************************************)
(* Theorems about Supervisor for any number of commands, keystrokes and    *)
(* resizes: keystrokes stay with their command and in order, the sink      *)
(* follows the prompt and the restarts, sizes agree, and tcomp ends with   *)
(* its command, however the writes of pump_writes block.                   *)
(***************************************************************************)
EXTENDS Supervisor, SequenceTheorems, TLAPS

\* The command started last: while one is attached, that one.
Last == IF At("attach") THEN main.shell + 1 ELSE main.shell

-----------------------------------------------------------------------------
(* The inductive invariant. *)

\* Commands are started one after another.
Started ==
  /\ Last \in Commands
  /\ \A c \in Commands : cmd[c].state # "none" <=> c <= Last

\* In these phases the command has exited and its code is known.
AfterExit ==
  main.phase \in {"ended", "prompt", "ask", "spawn"} =>
    cmd[main.shell].state = "exited" /\ main.code = cmd[main.shell].code

\* What run_pty leaves with, once it leaves.
Left ==
  main.phase \in {"leave", "done"} =>
    \/ main.code \in {"term", "hup"} /\ (cmd[Last].state = "exited" \/ cmd[Last].killed)
    \/ cmd[Last].state = "exited" /\ main.code = cmd[Last].code

\* The newest command, also one that exits before it is attached, was given the size.
Sized ==
  ~tty.winch /\ ~missed =>
    /\ told = tty.size
    /\ cmd[Last].state = "alive" \/ At("attach") => cmd[Last].size = tty.size

\* A blocked write keeps the sink as it found it; only the death of a command closes it.
Delivers ==
  /\ sink.shell = main.shell
  /\ writing # NoWrite => sink.kind = "pty" /\ writing.shell = sink.shell
  /\ sink.kind = "closed" => cmd[sink.shell].state = "exited"
  /\ sink.kind = "prompt" => main.phase \in {"ask", "spawn", "attach", "leave", "done"}
  /\ main.phase \in {"ask", "spawn", "attach"} => sink.kind = "prompt"

\* The keystrokes pump_writes has taken off its channel.
Taken == typed - Len(queue)

\* The channel holds the newest keystrokes; the others come before them wherever they
\* went.
Ordered ==
  /\ Len(queue) <= typed
  /\ \A i \in 1..Len(queue) : queue[i].n = Taken + i
  /\ \A i \in 1..Len(prompt) : prompt[i].n <= Taken
  /\ writing.n <= Taken
  /\ \A c \in Commands : asked[c] <= Taken
  /\ \A i \in 1..Len(log) : log[i].n <= Taken

Written ==
  /\ \A i \in 1..Len(log) : /\ log[i].shell <= main.shell
                            /\ log[i].n > asked[log[i].shell]
                            /\ writing # NoWrite => log[i].n < writing.n
  /\ \A i, j \in 1..Len(log) : i < j => log[i].n < log[j].n
  /\ writing # NoWrite => writing.n > asked[writing.shell]

IInv ==
  TypeOK /\ Started /\ AfterExit /\ Left /\ Sized /\ Delivers /\ Ordered /\ Written

-----------------------------------------------------------------------------
(* What the numbers of keystrokes rest on. *)

Phases == {"start", "run", "ended", "prompt", "ask", "spawn", "attach", "leave", "done"}
Codings == Codes \cup {"term", "hup", "none"}
Processes == [state : {"none", "alive", "exited"}, size : Sizes,
              code : Codes \cup {"none"}, killed : BOOLEAN]
Entries == [n : 1..MaxKeys, shell : Commands]

\* The types of the variables' fields.
LEMMA TypesOfFields ==
  ASSUME TypeOK
  PROVE  /\ main \in [phase : Phases, shell : Commands, code : Codings]
         /\ main.shell \in Commands /\ main.shell \in Int
         /\ tty \in [size : Sizes, winch : BOOLEAN]
         /\ cmd \in [Commands -> Processes]
         /\ sink \in [kind : {"pty", "prompt", "closed"}, shell : Commands]
         /\ writing \in [n : 0..MaxKeys, shell : Commands] /\ writing.n \in Nat
         /\ queue \in Seq(Keys) /\ prompt \in Seq(Keys) /\ log \in Seq(Entries)
         /\ Len(queue) \in Nat /\ Len(prompt) \in Nat /\ Len(log) \in Nat
         /\ typed \in Nat /\ MaxKeys \in Nat /\ 1 \in Commands
BY SMTT(30), SupervisorAssumption DEF TypeOK, Phases, Codings, Processes, Entries, Commands

\* What was written, was written to a command.
LEMMA LogTyped ==
  ASSUME TypeOK
  PROVE  \A i \in 1..Len(log) : log[i] \in Entries
<1>1. log \in Seq(Entries)
  BY TypesOfFields
<1> QED BY <1>1, ElementOfSeq

\* Keystrokes stay where they are.
LEMMA KeysRest ==
  ASSUME IInv, UNCHANGED <<queue, prompt, writing, typed, log, asked>>,
         main'.shell = main.shell
  PROVE  Ordered' /\ Written'
BY DEF IInv, Ordered, Written, Taken

\* The command, the sizes and the sink stay, and run_pty goes on.
LEMMA RunsOn ==
  ASSUME IInv, UNCHANGED <<tty, signals, sink, writing, queue, prompt, told, typed, log,
                           asked, missed>>,
         NEW phase \in Phases, NEW code \in Codings,
         main' = [main EXCEPT !.phase = phase, !.code = code],
         UNCHANGED cmd, phase # "attach", ~At("attach"),
         AfterExit', Left', Delivers'
  PROVE  IInv'
<1>1. main' \in [phase : Phases, shell : Commands, code : Codings]
      /\ main'.shell = main.shell /\ main'.phase = phase
  BY TypesOfFields DEF IInv
<1>2. TypeOK'
  BY <1>1 DEF IInv, TypeOK, Phases, Codings
<1>3. Last' = Last
  BY <1>1 DEF Last, At
<1>4. Started' /\ Sized'
  BY <1>1, <1>3 DEF IInv, Started, Sized, At
<1> QED BY <1>1, <1>2, <1>4, KeysRest DEF IInv

-----------------------------------------------------------------------------
(* Steps of run_pty. *)

\* Steps that move run_pty on and leave commands, sizes, sink and keystrokes alone.
LEMMA ControlKeeps ==
  ASSUME IInv,
         \/ Listens \/ Exited \/ Drained \/ TimesOut \/ SpawnFails \/ Leave
         \/ \E s \in signals : TerminateAsking(s)
  PROVE  IInv'
<1> USE DEF IInv
<1>1. /\ main \in [phase : Phases, shell : Commands, code : Codings]
      /\ cmd \in [Commands -> Processes] /\ signals \subseteq {"term", "hup"}
      /\ main.code \in Codings
  BY TypesOfFields DEF TypeOK
<1>2. cmd[main.shell].code \in Codings
  BY <1>1 DEF Processes, Codings
<1> DEFINE To(phase, code) == main' = [main EXCEPT !.phase = phase, !.code = code]
<1>3. CASE Listens
  <2>1. To("run", main.code) /\ "run" \in Phases
    BY <1>1, <1>3 DEF Listens, Goes, Phases
  <2>2. AfterExit' /\ Left' /\ Delivers'
    BY <1>1, <1>3, <2>1 DEF Listens, At, AfterExit, Left, Delivers
  <2> QED BY <1>1, <1>3, <2>1, <2>2, RunsOn DEF Listens, At
<1>4. CASE Exited
  <2>1. To("ended", cmd[main.shell].code) /\ "ended" \in Phases
    BY <1>1, <1>4 DEF Exited, Phases
  <2>2. AfterExit' /\ Left' /\ Delivers'
    BY <1>1, <1>4, <2>1 DEF Exited, At, AfterExit, Left, Delivers
  <2> QED BY <1>1, <1>2, <1>4, <2>1, <2>2, RunsOn DEF Exited, At
<1>5. CASE Drained
  <2>1. PICK phase \in {"prompt", "leave"} : To(phase, main.code)
    BY <1>1, <1>5 DEF Drained, Goes
  <2>2. AfterExit' /\ Left' /\ Delivers'
    BY <1>1, <1>5, <2>1 DEF Drained, At, AfterExit, Left, Delivers, Last
  <2>3. phase \in Phases /\ phase # "attach"
    BY <2>1 DEF Phases
  <2> QED BY <1>1, <1>5, <2>1, <2>2, <2>3, RunsOn DEF Drained, At
<1>6. CASE TimesOut \/ SpawnFails
  <2>1. To("leave", main.code) /\ "leave" \in Phases
    BY <1>1, <1>6 DEF TimesOut, SpawnFails, Leaves, Phases
  <2>2. AfterExit' /\ Left' /\ Delivers'
    BY <1>1, <1>6, <2>1 DEF TimesOut, SpawnFails, At, AfterExit, Left, Delivers, Last
  <2> QED BY <1>1, <1>6, <2>1, <2>2, RunsOn DEF TimesOut, SpawnFails, At
<1>7. CASE Leave
  <2>1. To("done", main.code) /\ "done" \in Phases
    BY <1>1, <1>7 DEF Leave, Goes, Phases
  <2>2. AfterExit' /\ Left' /\ Delivers'
    BY <1>1, <1>7, <2>1 DEF Leave, At, AfterExit, Left, Delivers, Last
  <2> QED BY <1>1, <1>7, <2>1, <2>2, RunsOn DEF Leave, At
<1>8. ASSUME NEW s \in signals, TerminateAsking(s) PROVE IInv'
  <2>1. s \in {"term", "hup"} /\ s \in Codings
    BY <1>1 DEF Codings
  <2>2. To("leave", s) /\ "leave" \in Phases
    BY <1>1, <1>8 DEF TerminateAsking, Leaves, Phases
  <2>3. AfterExit' /\ Left' /\ Delivers'
    BY <1>1, <1>8, <2>1, <2>2
       DEF TerminateAsking, At, AfterExit, Left, Delivers, Last
  <2> QED BY <1>1, <1>8, <2>1, <2>2, <2>3, RunsOn DEF TerminateAsking, At
<1> QED BY <1>3, <1>4, <1>5, <1>6, <1>7, <1>8

\* The sizes of the command's pty and of its event follow the terminal's.
LEMMA WinchKeeps ==
  ASSUME IInv, Winch \/ WinchAsking
  PROVE  IInv'
<1> USE DEF IInv
<1>1. /\ tty \in [size : Sizes, winch : BOOLEAN] /\ main.shell \in Commands
      /\ cmd \in [Commands -> Processes] /\ FALSE \in BOOLEAN
  BY TypesOfFields
<1>2. tty.size \in Sizes
  BY <1>1
<1>3. /\ tty' \in [size : Sizes, winch : BOOLEAN] /\ tty'.size = tty.size
      /\ told' = tty.size /\ missed' = FALSE
      /\ UNCHANGED <<signals, main, sink, writing, queue, prompt, typed, log, asked>>
  BY <1>1 DEF Winch, WinchAsking
<1>4. /\ cmd' \in [Commands -> Processes]
      /\ \A c \in Commands : /\ cmd'[c].state = cmd[c].state
                             /\ cmd'[c].code = cmd[c].code
                             /\ cmd'[c].killed = cmd[c].killed
  BY <1>1, <1>2 DEF Winch, WinchAsking, Processes
<1>5. main.phase # "attach" /\ (cmd[main.shell].state = "alive" =>
                                  cmd'[main.shell].size = tty.size)
  <2>1. CASE Winch
    BY <1>1, <2>1 DEF Winch, At
  <2>2. CASE WinchAsking
    BY <2>2 DEF WinchAsking, At, AfterExit
  <2> QED BY <2>1, <2>2
<1>6. TypeOK'
  BY <1>2, <1>3, <1>4 DEF TypeOK, Processes
<1>7. Last' = main.shell /\ Last = main.shell
  BY <1>3, <1>5 DEF Last, At
<1>8. Started' /\ AfterExit' /\ Left' /\ Delivers'
  BY <1>1, <1>3, <1>4, <1>7 DEF Started, AfterExit, Left, Delivers
<1>9. Sized'
  BY <1>1, <1>3, <1>4, <1>5, <1>7 DEF Sized, At
<1> QED BY <1>3, <1>6, <1>8, <1>9, KeysRest

\* A signal: the command is told to stop, and tcomp leaves.
LEMMA TerminateKeeps ==
  ASSUME IInv, NEW s \in signals, Terminate(s)
  PROVE  IInv'
<1> USE DEF IInv
<1>1. /\ main \in [phase : Phases, shell : Commands, code : Codings]
      /\ cmd \in [Commands -> Processes] /\ main.shell \in Commands
      /\ s \in {"term", "hup"} /\ "leave" \in Phases /\ TRUE \in BOOLEAN
      /\ main.phase = "run"
  BY TypesOfFields DEF TypeOK, Phases, Terminate, At
<1>2. s \in Codings
  BY <1>1 DEF Codings
<1>3. /\ main' \in [phase : Phases, shell : Commands, code : Codings]
      /\ main'.phase = "leave" /\ main'.code = s /\ main'.shell = main.shell
      /\ UNCHANGED <<tty, signals, sink, writing, queue, prompt, told, typed, log, asked,
                     missed>>
  BY <1>1, <1>2 DEF Terminate, Leaves
<1>4. /\ cmd' \in [Commands -> Processes]
      /\ \A c \in Commands : /\ cmd'[c].state = cmd[c].state
                             /\ cmd'[c].code = cmd[c].code
                             /\ cmd'[c].size = cmd[c].size
      /\ cmd'[main.shell].killed = TRUE
  <2>1. cmd' = [cmd EXCEPT ![main.shell] = [cmd[main.shell] EXCEPT !.killed = TRUE]]
    BY DEF Terminate
  <2>2. cmd[main.shell] \in Processes
    BY <1>1
  <2> QED BY <1>1, <2>1, <2>2 DEF Processes
<1>5. TypeOK'
  BY <1>3, <1>4 DEF TypeOK, Processes, Phases, Codings
<1>6. Last' = main.shell /\ Last = main.shell
  BY <1>1, <1>3 DEF Last, At
<1>7. Started' /\ AfterExit' /\ Left' /\ Sized' /\ Delivers'
  BY <1>1, <1>3, <1>4, <1>6 DEF Started, AfterExit, Left, Sized, Delivers, At
<1> QED BY <1>3, <1>5, <1>7, KeysRest

\* A command is started with the size its terminal has by then.
LEMMA SpawnKeeps ==
  ASSUME IInv, Spawn
  PROVE  IInv'
<1> USE DEF IInv
<1>1. /\ main \in [phase : Phases, shell : Commands, code : Codings]
      /\ cmd \in [Commands -> Processes] /\ main.shell \in Commands
      /\ tty \in [size : Sizes, winch : BOOLEAN]
      /\ "attach" \in Phases /\ FALSE \in BOOLEAN /\ main.phase = "spawn"
  BY TypesOfFields DEF TypeOK, Phases, Spawn, At
<1> DEFINE next == main.shell + 1
<1>2. next \in Commands /\ next # main.shell /\ tty.size \in Sizes
  BY <1>1, SupervisorAssumption DEF Spawn, Commands
<1>3. /\ main' \in [phase : Phases, shell : Commands, code : Codings]
      /\ main'.phase = "attach" /\ main'.shell = main.shell
      /\ UNCHANGED <<tty, signals, sink, writing, queue, prompt, told, typed, log, asked,
                     missed>>
  BY <1>1 DEF Spawn, Goes
<1>4. Spawned(tty.size) \in Processes
  BY <1>2 DEF Spawned, Processes
<1>5. /\ cmd' \in [Commands -> Processes]
      /\ \A c \in Commands : c # next => cmd'[c] = cmd[c]
      /\ cmd'[next].state = "alive" /\ cmd'[next].size = tty.size
  BY <1>1, <1>2, <1>4 DEF Spawn, Spawned
<1>6. TypeOK'
  BY <1>3, <1>5 DEF TypeOK, Processes, Phases, Codings
<1>7. Last' = next /\ Last = main.shell
  BY <1>1, <1>3 DEF Last, At
<1>8. Started'
  <2>1. \A c \in Commands : c <= next <=> c <= main.shell \/ c = next
    BY <1>1 DEF Commands
  <2> QED BY <1>1, <1>2, <1>5, <1>7, <2>1 DEF Started
<1>9. AfterExit' /\ Left' /\ Sized' /\ Delivers'
  BY <1>1, <1>2, <1>3, <1>5, <1>7 DEF AfterExit, Left, Sized, Delivers, At
<1> QED BY <1>3, <1>6, <1>8, <1>9, KeysRest

\* The prompt takes the sink, which no write holds.
LEMMA AsksKeeps ==
  ASSUME IInv, AsksForKeys
  PROVE  IInv'
<1> USE DEF IInv
<1>1. /\ main \in [phase : Phases, shell : Commands, code : Codings]
      /\ sink \in [kind : {"pty", "prompt", "closed"}, shell : Commands]
      /\ "ask" \in Phases /\ main.phase = "prompt" /\ writing = NoWrite
      /\ <<>> \in Seq(Keys) /\ Len(<<>>) = 0
  BY TypesOfFields, EmptySeq DEF Phases, AsksForKeys, At
<1>2. /\ main' = [main EXCEPT !.phase = "ask"] /\ sink' = [sink EXCEPT !.kind = "prompt"]
      /\ prompt' = <<>>
      /\ UNCHANGED <<tty, signals, cmd, writing, queue, told, typed, log, asked, missed>>
  BY DEF AsksForKeys, Goes
<1>3. /\ main' \in [phase : Phases, shell : Commands, code : Codings]
      /\ main'.phase = "ask" /\ main'.shell = main.shell /\ main'.code = main.code
      /\ sink' \in [kind : {"pty", "prompt", "closed"}, shell : Commands]
      /\ sink'.kind = "prompt" /\ sink'.shell = sink.shell
  BY <1>1, <1>2
<1>4. TypeOK'
  BY <1>1, <1>2, <1>3 DEF TypeOK, Phases, Codings
<1>5. Last' = main.shell /\ Last = main.shell
  BY <1>1, <1>3 DEF Last, At
<1>6. Started' /\ AfterExit' /\ Left' /\ Sized' /\ Delivers'
  BY <1>1, <1>2, <1>3, <1>5 DEF Started, AfterExit, Left, Sized, Delivers, At
<1>7. Ordered' /\ Written'
  BY <1>1, <1>2, <1>3 DEF Ordered, Written, Taken
<1> QED BY <1>4, <1>6, <1>7

\* The keystroke that answers is not for the command it starts.
LEMMA AnswerKeeps ==
  ASSUME IInv, Answer
  PROVE  IInv'
<1> USE DEF IInv
<1>1. /\ main \in [phase : Phases, shell : Commands, code : Codings]
      /\ main.shell \in Commands /\ main.phase = "ask" /\ prompt # <<>>
      /\ prompt \in Seq(Keys) /\ typed \in Nat /\ Len(queue) \in Nat
      /\ UNCHANGED <<tty, signals, cmd, sink, writing, queue, told, typed, log, missed>>
  BY TypesOfFields DEF Answer, At
<1>2. /\ Tail(prompt) \in Seq(Keys) /\ Len(Tail(prompt)) = Len(prompt) - 1
      /\ Len(prompt) \in Nat /\ Len(prompt) > 0 /\ Head(prompt) = prompt[1]
      /\ Head(prompt) \in Keys
      /\ \A i \in 1..Len(Tail(prompt)) : Tail(prompt)[i] = prompt[i + 1]
      /\ prompt' = Tail(prompt)
  BY <1>1, EmptySeq, HeadTailProperties DEF Answer
<1>3. /\ main' \in [phase : Phases, shell : Commands, code : Codings]
      /\ main'.phase \in {"spawn", "leave"} /\ main'.shell = main.shell
      /\ main'.code = main.code
  <2>1. \E phase \in {"spawn", "leave"} :
          main' = [main EXCEPT !.phase = phase, !.code = main.code]
    BY <1>1 DEF Answer, Goes, Leaves
  <2> QED BY <1>1, <2>1 DEF Phases
<1>4. Head(prompt).n \in 1..MaxKeys /\ Head(prompt).n <= Taken
  BY <1>2 DEF Keys, Ordered
<1>5. /\ asked' \in [Commands -> 0..MaxKeys]
      /\ \A c \in Commands : /\ asked'[c] <= Taken
                             /\ c <= main.shell => asked'[c] = asked[c]
  <2>1. asked \in [Commands -> 0..MaxKeys] /\ \A c \in Commands : asked[c] <= Taken
    BY DEF TypeOK, Ordered
  <2>2. CASE asked' = asked
    BY <2>1, <2>2
  <2>3. CASE /\ main.shell + 1 \in Commands
             /\ asked' = [asked EXCEPT ![main.shell + 1] = Head(prompt).n]
    <3>1. \A c \in Commands : c <= main.shell => c # main.shell + 1
      BY <1>1 DEF Commands
    <3>2. Head(prompt).n \in 0..MaxKeys
      BY <1>4
    <3> QED BY <1>4, <2>1, <2>3, <3>1, <3>2
  <2>4. main.shell < MaxCommands => main.shell + 1 \in Commands
    BY <1>1, SupervisorAssumption DEF Commands
  <2> QED BY <2>2, <2>3, <2>4 DEF Answer
<1>6. TypeOK'
  BY <1>1, <1>2, <1>3, <1>5 DEF TypeOK, Phases, Codings
<1>7. Last' = main.shell /\ Last = main.shell
  BY <1>1, <1>3 DEF Last, At
<1>8. Started' /\ AfterExit' /\ Left' /\ Sized' /\ Delivers'
  BY <1>1, <1>3, <1>7 DEF Started, AfterExit, Left, Sized, Delivers, At
<1>9. Taken' = Taken
  BY <1>1 DEF Taken
<1>10. Ordered'
  BY <1>1, <1>2, <1>5, <1>9 DEF Ordered
<1>11. Written'
  <2>1. writing = NoWrite
    BY <1>1 DEF Delivers
  <2>2. \A i \in 1..Len(log) : log[i].shell \in Commands
    BY LogTyped DEF Entries
  <2> QED BY <1>1, <1>3, <1>5, <2>1, <2>2 DEF Written
<1> QED BY <1>6, <1>8, <1>10, <1>11

\* The new command takes the sink, which no write holds.
LEMMA AttachKeeps ==
  ASSUME IInv, Attach
  PROVE  IInv'
<1> USE DEF IInv
<1> DEFINE next == main.shell + 1
<1>1. /\ cmd \in [Commands -> Processes] /\ main.shell \in Commands
      /\ main.phase = "attach" /\ writing = NoWrite
      /\ <<>> \in Seq(Keys) /\ Len(<<>>) = 0
      /\ "run" \in Phases /\ "none" \in Codings
  BY TypesOfFields, EmptySeq DEF Attach, At, Phases, Codings
<1>2. Last = next /\ next \in Commands /\ next \in Nat /\ main.shell \in Nat
  BY <1>1 DEF Last, At, Started, Commands
<1>3. /\ main' = [phase |-> "run", shell |-> next, code |-> "none"]
      /\ sink' = [kind |-> "pty", shell |-> next]
      /\ prompt' = <<>> /\ told' = cmd[next].size
      /\ UNCHANGED <<tty, signals, cmd, writing, queue, typed, log, asked, missed>>
  BY DEF Attach
<1>4. TypeOK'
  <2>1. cmd[next].size \in Sizes
    BY <1>1, <1>2 DEF Processes
  <2> QED BY <1>1, <1>2, <1>3, <2>1 DEF TypeOK, Phases, Codings
<1>5. Last' = next
  BY <1>3 DEF Last, At
<1>6. Started' /\ AfterExit' /\ Left' /\ Delivers'
  BY <1>1, <1>2, <1>3, <1>5 DEF Started, AfterExit, Left, Delivers
<1>7. Sized'
  BY <1>1, <1>2, <1>3, <1>5 DEF Sized, At
<1>8. Ordered'
  BY <1>1, <1>3 DEF Ordered, Taken
<1>9. Written'
  <2>1. \A i \in 1..Len(log) : log[i].shell \in Nat
    BY LogTyped DEF Entries, Commands
  <2> QED BY <1>1, <1>2, <1>3, <2>1 DEF Written
<1> QED BY <1>4, <1>6, <1>7, <1>8, <1>9

\* Any step of run_pty.
LEMMA RunPtyKeeps == IInv /\ RunPty => IInv'
BY ControlKeeps, WinchKeeps, TerminateKeeps, SpawnKeeps, AsksKeeps, AnswerKeeps, AttachKeeps
   DEF RunPty

-----------------------------------------------------------------------------
(* Steps of the world and of pump_writes. *)

\* Resizes, signals and exits come at any time.
LEMMA EventsKeep ==
  ASSUME IInv,
         \/ Resized \/ \E s \in {"term", "hup"} : Signal(s)
         \/ \E c \in Commands : CommandExits(c)
  PROVE  IInv'
<1> USE DEF IInv
<1>1. /\ tty \in [size : Sizes, winch : BOOLEAN] /\ cmd \in [Commands -> Processes]
      /\ MaxResizes \in Nat
  BY TypesOfFields, SupervisorAssumption
<1>2. CASE Resized
  <2>1. tty.size + 1 \in Sizes /\ (~At("start")) \in BOOLEAN
    BY <1>1, <1>2 DEF Resized, Sizes
  <2>2. /\ tty' \in [size : Sizes, winch : BOOLEAN] /\ missed' \in BOOLEAN
        /\ UNCHANGED <<signals, main, cmd, sink, writing, queue, prompt, told, typed, log,
                       asked>>
    BY <2>1, <1>2 DEF Resized, TypeOK
  <2>3. TypeOK'
    BY <2>2 DEF TypeOK
  <2>4. Started' /\ AfterExit' /\ Left' /\ Delivers'
    BY <2>2 DEF Started, AfterExit, Left, Delivers, Last, At
  <2>5. Sized'
    BY <1>2 DEF Resized, Sized, At
  <2> QED BY <2>2, <2>3, <2>4, <2>5, KeysRest
<1>3. ASSUME NEW s \in {"term", "hup"}, Signal(s) PROVE IInv'
  <2>1. UNCHANGED <<tty, main, cmd, sink, writing, queue, prompt, told, typed, log, asked,
                    missed>>
    BY <1>3 DEF Signal
  <2>2. TypeOK'
    BY <1>3 DEF TypeOK, Signal
  <2>3. Started' /\ AfterExit' /\ Left' /\ Sized' /\ Delivers'
    BY <2>1 DEF Started, AfterExit, Left, Sized, Delivers, Last, At
  <2> QED BY <2>1, <2>2, <2>3, KeysRest
<1>4. ASSUME NEW c \in Commands, CommandExits(c) PROVE IInv'
  <2>1. PICK code \in Codes :
          cmd' = [cmd EXCEPT ![c] = [cmd[c] EXCEPT !.state = "exited", !.code = code]]
    BY ZenonT(40), <1>1, <1>4 DEF CommandExits, Processes
  <2>2. cmd[c] \in Processes /\ cmd[c].state = "alive"
    BY <1>1, <1>4 DEF CommandExits
  <2>3. /\ cmd' \in [Commands -> Processes]
        /\ \A d \in Commands :
             /\ cmd'[d].size = cmd[d].size /\ cmd'[d].killed = cmd[d].killed
             /\ cmd'[d].state = IF d = c THEN "exited" ELSE cmd[d].state
             /\ d # c => cmd'[d].code = cmd[d].code
    BY <1>1, <2>1, <2>2 DEF Processes
  <2>4. UNCHANGED <<tty, signals, main, sink, writing, queue, prompt, told, typed, log,
                    asked, missed>>
    BY <1>4 DEF CommandExits
  <2>5. TypeOK'
    BY <2>3, <2>4 DEF TypeOK, Processes
  <2>6. Last' = Last /\ Last \in Commands /\ main.shell \in Commands
        /\ sink.shell = main.shell
    BY <2>4, TypesOfFields DEF Last, At, Started, Delivers
  <2>7. Started' /\ AfterExit' /\ Left'
    BY <2>2, <2>3, <2>4, <2>6 DEF Started, AfterExit, Left
  <2>8. Sized' /\ Delivers'
    BY <2>2, <2>3, <2>4, <2>6 DEF Sized, Delivers, At
  <2> QED BY <2>4, <2>5, <2>7, <2>8, KeysRest
<1> QED BY <1>2, <1>3, <1>4

\* A keystroke comes after all others.
LEMMA TypesKeeps ==
  ASSUME IInv, Types
  PROVE  IInv'
<1> USE DEF IInv
<1>1. /\ queue \in Seq(Keys) /\ Len(queue) \in Nat /\ typed \in Nat /\ typed < MaxKeys
      /\ MaxKeys \in Nat /\ typed' = typed + 1
      /\ UNCHANGED <<tty, signals, main, cmd, sink, writing, prompt, told, log, asked,
                     missed>>
  BY TypesOfFields DEF Types
<1>2. PICK r \in BOOLEAN : queue' = Append(queue, [n |-> typed + 1, r |-> r])
  BY DEF Types
<1> DEFINE key == [n |-> typed + 1, r |-> r]
<1>3. key \in Keys /\ key.n = typed + 1
  BY <1>1 DEF Keys
<1> HIDE DEF key
<1>4. /\ queue' \in Seq(Keys) /\ Len(queue') = Len(queue) + 1
      /\ \A i \in 1..Len(queue) : queue'[i] = queue[i]
      /\ queue'[Len(queue) + 1] = key
  BY <1>1, <1>2, <1>3, AppendProperties DEF key
<1>5. TypeOK'
  BY <1>1, <1>4 DEF TypeOK
<1>6. Started' /\ AfterExit' /\ Left' /\ Sized' /\ Delivers'
  BY <1>1 DEF Started, AfterExit, Left, Sized, Delivers, Last, At
<1>7. Taken' = Taken /\ Taken \in Int /\ Taken + Len(queue) = typed
  BY <1>1, <1>4 DEF Taken
<1>8. Ordered'
  <2>1. ASSUME NEW i \in 1..Len(queue') PROVE queue'[i].n = Taken + i
    <3>1. CASE i \in 1..Len(queue)
      BY <1>4, <3>1 DEF Ordered
    <3>2. CASE i = Len(queue) + 1
      BY <1>1, <1>3, <1>4, <1>7, <3>2
    <3> QED BY <1>1, <1>4, <3>1, <3>2
  <2> QED BY <1>1, <1>4, <1>7, <2>1 DEF Ordered
<1>9. Written'
  BY <1>1 DEF Written
<1> QED BY <1>5, <1>6, <1>8, <1>9

\* A keystroke that is written comes after what was written before.
LEMMA LogGrows ==
  ASSUME TypeOK, NEW e \in Entries, e.shell <= main.shell, e.n > asked[e.shell],
         \A i \in 1..Len(log) : /\ log[i].shell <= main.shell
                                /\ log[i].n > asked[log[i].shell]
                                /\ log[i].n < e.n,
         \A i, j \in 1..Len(log) : i < j => log[i].n < log[j].n
  PROVE  LET new == Append(log, e) IN
           /\ new \in Seq(Entries)
           /\ \A i \in 1..Len(new) : /\ new[i].shell <= main.shell
                                     /\ new[i].n > asked[new[i].shell]
                                     /\ new[i].n <= e.n
           /\ \A i, j \in 1..Len(new) : i < j => new[i].n < new[j].n
<1> DEFINE new == Append(log, e)
<1>1. log \in Seq(Entries) /\ Len(log) \in Nat /\ e.n \in Int
  BY TypesOfFields, SupervisorAssumption DEF Entries
<1>2. /\ new \in Seq(Entries) /\ Len(new) = Len(log) + 1
      /\ \A i \in 1..Len(log) : new[i] = log[i]
      /\ new[Len(log) + 1] = e
  BY <1>1, AppendProperties
<1>3. \A i \in 1..Len(log) : log[i].n \in Int
  BY LogTyped DEF Entries
<1> HIDE DEF new
<1>4. \A i \in 1..Len(new) : i \in 1..Len(log) \/ i = Len(log) + 1
  BY <1>1, <1>2
<1>5. ASSUME NEW i \in 1..Len(new)
      PROVE  /\ new[i].shell <= main.shell /\ new[i].n > asked[new[i].shell]
             /\ new[i].n <= e.n
  BY <1>1, <1>2, <1>3, <1>4
<1>6. ASSUME NEW i \in 1..Len(new), NEW j \in 1..Len(new), i < j
      PROVE  new[i].n < new[j].n
  <2>1. i \in 1..Len(log) /\ new[i] = log[i]
    BY <1>1, <1>2, <1>6
  <2>2. CASE j \in 1..Len(log)
    BY <1>2, <1>6, <2>1, <2>2
  <2>3. CASE j = Len(log) + 1
    BY <1>2, <2>1, <2>3
  <2> QED BY <1>4, <2>2, <2>3
<1> QED BY <1>2, <1>5, <1>6 DEF new

\* A blocked write returns: it was written, or its command is dead and the sink closes.
LEMMA WriteReturnsKeeps ==
  ASSUME IInv, WriteReturns
  PROVE  IInv'
<1> USE DEF IInv
<1>1. /\ writing \in [n : 0..MaxKeys, shell : Commands] /\ writing # NoWrite
      /\ sink \in [kind : {"pty", "prompt", "closed"}, shell : Commands]
      /\ writing' = NoWrite /\ sink.kind = "pty" /\ writing.shell = sink.shell
      /\ sink.shell = main.shell /\ main.shell \in Int /\ MaxKeys \in Nat
      /\ 1 \in Commands /\ typed \in Nat /\ Len(queue) \in Nat
      /\ UNCHANGED <<tty, signals, main, cmd, queue, prompt, told, typed, asked, missed>>
  BY TypesOfFields DEF WriteReturns, Delivers
<1>2. asked[writing.shell] \in Nat /\ writing.n > asked[writing.shell]
  BY <1>1 DEF TypeOK, Written
<1>3. Last' = Last /\ Taken' = Taken /\ NoWrite.n = 0 /\ Taken \in Nat
  BY <1>1 DEF Last, At, Taken, NoWrite, Ordered
<1>4. NoWrite \in [n : 0..MaxKeys, shell : Commands]
  BY <1>1 DEF NoWrite
<1>5. CASE log' = Append(log, writing) /\ UNCHANGED sink
  <2>1. writing \in Entries
    BY <1>1, <1>2 DEF Entries
  <2>2. /\ log' \in Seq(Entries)
        /\ \A i \in 1..Len(log') : /\ log'[i].shell <= main.shell
                                   /\ log'[i].n > asked[log'[i].shell]
                                   /\ log'[i].n <= writing.n
        /\ \A i, j \in 1..Len(log') : i < j => log'[i].n < log'[j].n
    <3>1. \A i \in 1..Len(log) : /\ log[i].shell <= main.shell
                                 /\ log[i].n > asked[log[i].shell]
                                 /\ log[i].n < writing.n
      BY <1>1 DEF Written
    <3>2. /\ \A i, j \in 1..Len(log) : i < j => log[i].n < log[j].n
          /\ writing.shell <= main.shell
      BY <1>1 DEF Written
    <3> QED BY <1>2, <1>5, <2>1, <3>1, <3>2, LogGrows
  <2>3. TypeOK'
    BY <1>1, <1>4, <1>5, <2>2 DEF TypeOK, Entries
  <2>4. Started' /\ AfterExit' /\ Left' /\ Sized' /\ Delivers'
    BY <1>1, <1>3, <1>5 DEF Started, AfterExit, Left, Sized, Delivers, At
  <2>5. Ordered'
    <3>1. \A i \in 1..Len(log') : log'[i].n \in Int
      <4>1. \A i \in 1..Len(log') : log'[i] \in Entries
        BY <2>2, ElementOfSeq
      <4> QED BY <4>1 DEF Entries
    <3> QED BY <1>1, <1>3, <2>2, <3>1 DEF Ordered
  <2>6. Written'
    BY <1>1, <2>2 DEF Written
  <2> QED BY <2>3, <2>4, <2>5, <2>6
<1>6. CASE WriteFails(writing) /\ UNCHANGED log
  <2>1. /\ sink' \in [kind : {"pty", "prompt", "closed"}, shell : Commands]
        /\ sink'.kind = "closed" /\ sink'.shell = sink.shell
        /\ cmd[sink.shell].state = "exited"
    BY <1>1, <1>6 DEF WriteFails
  <2>2. TypeOK'
    BY <1>1, <1>4, <1>6, <2>1 DEF TypeOK
  <2>3. Started' /\ AfterExit' /\ Left' /\ Sized' /\ Delivers'
    BY <1>1, <1>3, <2>1 DEF Started, AfterExit, Left, Sized, Delivers, At
  <2>4. Ordered' /\ Written'
    BY <1>1, <1>3, <1>6 DEF Ordered, Written
  <2> QED BY <2>2, <2>3, <2>4
<1> QED BY <1>5, <1>6 DEF WriteReturns

\* The oldest keystroke of the channel goes where keystrokes go.
LEMMA DeliverKeeps ==
  ASSUME IInv, Deliver
  PROVE  IInv'
<1> USE DEF IInv
<1> DEFINE key == Head(queue)
<1>1. /\ queue \in Seq(Keys) /\ queue # <<>> /\ writing = NoWrite
      /\ sink \in [kind : {"pty", "prompt", "closed"}, shell : Commands]
      /\ sink.shell = main.shell /\ main.shell \in Commands /\ main.shell \in Int
      /\ MaxKeys \in Nat /\ typed \in Nat /\ Len(queue) \in Nat /\ 1 \in Commands
      /\ prompt \in Seq(Keys) /\ Len(prompt) \in Nat
      /\ queue' = Tail(queue)
      /\ UNCHANGED <<tty, signals, main, cmd, told, typed, asked, missed>>
  BY TypesOfFields DEF Deliver, Delivers
<1>2. /\ queue' \in Seq(Keys) /\ Len(queue') = Len(queue) - 1
      /\ Len(queue) > 0 /\ key = queue[1] /\ key \in Keys
      /\ \A i \in 1..Len(queue') : queue'[i] = queue[i + 1]
  BY <1>1, EmptySeq, HeadTailProperties
<1>3. /\ Taken \in Int /\ Taken' = Taken + 1 /\ Len(queue') <= typed'
      /\ \A i \in 1..Len(queue') : queue'[i].n = Taken' + i
      /\ key.n = Taken' /\ key.n \in 1..MaxKeys
  <2>1. Taken \in Int /\ Taken' = Taken + 1 /\ Len(queue') <= typed'
    BY <1>1, <1>2 DEF Taken, Ordered
  <2>2. \A i \in 1..Len(queue') : queue[i + 1].n = Taken + (i + 1)
    BY <1>1, <1>2 DEF Ordered
  <2>3. \A i \in 1..Len(queue') : Taken + (i + 1) = (Taken + 1) + i
    BY <2>1
  <2>4. key.n = Taken + 1
    BY <1>1, <1>2 DEF Ordered
  <2> QED BY <1>2, <2>1, <2>2, <2>3, <2>4 DEF Keys
<1> HIDE DEF key, Taken
<1>4. /\ \A c \in Commands : asked[c] \in Nat /\ asked[c] < key.n
      /\ \A i \in 1..Len(prompt) : prompt[i].n \in Int /\ prompt[i].n <= Taken'
      /\ \A i \in 1..Len(log) : log[i].n \in Int /\ log[i].n < key.n
  <2>1. \A i \in 1..Len(prompt) : prompt[i].n \in Int
    <3>1. \A i \in 1..Len(prompt) : prompt[i] \in Keys
      BY <1>1, ElementOfSeq
    <3> QED BY <3>1 DEF Keys
  <2>2. \A i \in 1..Len(log) : log[i].n \in Int
    BY LogTyped DEF Entries
  <2>3. \A c \in Commands : asked[c] \in Nat
    BY DEF TypeOK
  <2> QED BY <1>3, <2>1, <2>2, <2>3 DEF Ordered
<1>5. Last' = Last /\ NoWrite.n = 0 /\ Taken' \in Nat
  BY <1>1, <1>3 DEF Last, At, NoWrite
<1> DEFINE w == Write
<1>6. w = [n |-> key.n, shell |-> sink.shell]
  BY DEF Write, key
<1>7. w \in Entries /\ w.n = key.n /\ w.shell = sink.shell
  BY <1>1, <1>3, <1>6 DEF Entries
<1> HIDE DEF w
<1>8. CASE sink.kind = "pty" /\ log' = Append(log, w) /\ UNCHANGED <<sink, writing, prompt>>
  <2>1. /\ log' \in Seq(Entries)
        /\ \A i \in 1..Len(log') : /\ log'[i].shell <= main.shell
                                   /\ log'[i].n > asked[log'[i].shell]
                                   /\ log'[i].n <= w.n
        /\ \A i, j \in 1..Len(log') : i < j => log'[i].n < log'[j].n
    <3>1. \A i \in 1..Len(log) : /\ log[i].shell <= main.shell
                                 /\ log[i].n > asked[log[i].shell]
                                 /\ log[i].n < w.n
      BY <1>4, <1>7 DEF Written
    <3>2. /\ \A i, j \in 1..Len(log) : i < j => log[i].n < log[j].n
          /\ w.shell <= main.shell /\ w.n > asked[w.shell]
      BY <1>1, <1>4, <1>7 DEF Written
    <3> QED BY <1>7, <1>8, <3>1, <3>2, LogGrows
  <2>2. TypeOK'
    BY <1>1, <1>2, <1>8, <2>1 DEF TypeOK, Entries
  <2>3. Started' /\ AfterExit' /\ Left' /\ Sized' /\ Delivers'
    BY <1>1, <1>5, <1>8 DEF Started, AfterExit, Left, Sized, Delivers, At
  <2>4. Ordered'
    BY <1>1, <1>3, <1>4, <1>5, <1>7, <1>8, <2>1 DEF Ordered
  <2>5. Written'
    BY <1>1, <1>8, <2>1 DEF Written
  <2> QED BY <2>2, <2>3, <2>4, <2>5
<1>9. CASE sink.kind = "pty" /\ writing' = w /\ UNCHANGED <<sink, log, prompt>>
  <2>1. TypeOK'
    BY <1>1, <1>2, <1>7, <1>9 DEF TypeOK, Entries
  <2>2. Started' /\ AfterExit' /\ Left' /\ Sized' /\ Delivers'
    BY <1>1, <1>5, <1>7, <1>9 DEF Started, AfterExit, Left, Sized, Delivers, At
  <2>3. Ordered'
    BY <1>1, <1>3, <1>4, <1>5, <1>7, <1>9 DEF Ordered
  <2>4. Written'
    BY <1>1, <1>4, <1>7, <1>9 DEF Written
  <2> QED BY <2>1, <2>2, <2>3, <2>4
<1>10. CASE sink.kind = "pty" /\ WriteFails(w) /\ UNCHANGED <<writing, log, prompt>>
  <2>1. /\ sink' \in [kind : {"pty", "prompt", "closed"}, shell : Commands]
        /\ sink'.kind = "closed" /\ sink'.shell = sink.shell
        /\ cmd[sink.shell].state = "exited"
    BY <1>1, <1>7, <1>10 DEF WriteFails
  <2>2. TypeOK'
    BY <1>1, <1>2, <1>10, <2>1 DEF TypeOK
  <2>3. Started' /\ AfterExit' /\ Left' /\ Sized' /\ Delivers'
    BY <1>1, <1>5, <1>10, <2>1 DEF Started, AfterExit, Left, Sized, Delivers, At
  <2>4. Ordered'
    BY <1>1, <1>3, <1>4, <1>5, <1>10 DEF Ordered
  <2>5. Written'
    BY <1>1, <1>10 DEF Written
  <2> QED BY <2>2, <2>3, <2>4, <2>5
<1>11. CASE /\ sink.kind = "prompt" /\ prompt' = Append(prompt, key)
            /\ UNCHANGED <<sink, writing, log>>
  <2>1. /\ prompt' \in Seq(Keys) /\ Len(prompt') = Len(prompt) + 1
        /\ \A i \in 1..Len(prompt) : prompt'[i] = prompt[i]
        /\ prompt'[Len(prompt) + 1] = key
    BY <1>1, <1>2, <1>11, AppendProperties
  <2>2. TypeOK'
    BY <1>1, <1>2, <1>11, <2>1 DEF TypeOK
  <2>3. Started' /\ AfterExit' /\ Left' /\ Sized' /\ Delivers'
    BY <1>1, <1>5, <1>11 DEF Started, AfterExit, Left, Sized, Delivers, At
  <2>4. Ordered'
    <3>1. \A i \in 1..Len(prompt') : prompt'[i].n <= Taken'
      <4>1. \A i \in 1..Len(prompt') : i \in 1..Len(prompt) \/ i = Len(prompt) + 1
        BY <1>1, <2>1
      <4> QED BY <1>3, <1>4, <2>1, <4>1
    <3> QED BY SMTT(30), <1>1, <1>3, <1>4, <1>5, <1>11, <3>1 DEF Ordered
  <2>5. Written'
    BY <1>1, <1>11 DEF Written
  <2> QED BY <2>2, <2>3, <2>4, <2>5
<1>12. CASE sink.kind = "closed" /\ UNCHANGED <<sink, writing, prompt, log>>
  <2>1. TypeOK'
    BY <1>1, <1>2, <1>12 DEF TypeOK
  <2>2. Started' /\ AfterExit' /\ Left' /\ Sized' /\ Delivers'
    BY <1>1, <1>5, <1>12 DEF Started, AfterExit, Left, Sized, Delivers, At
  <2>3. Ordered'
    BY <1>1, <1>3, <1>4, <1>5, <1>12 DEF Ordered
  <2>4. Written'
    BY <1>1, <1>12 DEF Written
  <2> QED BY <2>1, <2>2, <2>3, <2>4
<1> QED BY <1>8, <1>9, <1>10, <1>11, <1>12 DEF Deliver, ToPty, ToPrompt, ToNobody, key, w

-----------------------------------------------------------------------------
(* Theorems. *)

\* The first command runs, and nothing was typed.
LEMMA InitHolds == Init => IInv
<1> SUFFICES ASSUME Init PROVE IInv
  OBVIOUS
<1> USE SupervisorAssumption
<1>1. /\ 1 \in Commands /\ 0 \in Sizes /\ 0 \in 0..MaxKeys /\ <<>> \in Seq(Keys)
      /\ <<>> \in Seq(Entries) /\ Len(<<>>) = 0 /\ \A c \in Commands : c >= 1
  BY EmptySeq DEF Commands, Sizes
<1>2. TypeOK
  <2>1. cmd \in [Commands -> Processes]
    BY <1>1 DEF Init, Spawned, Processes
  <2> QED BY <1>1, <2>1 DEF Init, TypeOK, Processes, NoWrite, Entries
<1>3. Last = 1
  BY DEF Init, Last, At
<1>4. Started
  <2>1. \A c \in Commands : c <= 1 <=> c = 1
    BY <1>1 DEF Commands
  <2> QED BY <1>1, <1>3, <2>1 DEF Init, Started, Spawned
<1>5. AfterExit /\ Left /\ Sized /\ Delivers
  BY <1>1, <1>3 DEF Init, AfterExit, Left, Sized, Delivers, At, Spawned
<1>6. Ordered /\ Written
  BY <1>1 DEF Init, Ordered, Written, Taken, NoWrite
<1> QED BY <1>2, <1>4, <1>5, <1>6 DEF IInv

\* Every step keeps the invariant.
LEMMA StepKeeps == IInv /\ [Next]_vars => IInv'
<1> SUFFICES ASSUME IInv, [Next]_vars PROVE IInv'
  OBVIOUS
<1>1. CASE RunPty
  BY <1>1, RunPtyKeeps
<1>2. CASE Deliver
  BY <1>2, DeliverKeeps
<1>3. CASE WriteReturns
  BY <1>3, WriteReturnsKeeps
<1>4. CASE World
  BY <1>4, EventsKeep, TypesKeeps DEF World
<1>5. CASE UNCHANGED vars
  BY <1>5 DEF vars, IInv, TypeOK, Started, AfterExit, Left, Sized, Delivers, Ordered, Written,
              Last, At, Taken
<1> QED BY <1>1, <1>2, <1>3, <1>4, <1>5 DEF Next

\* Newest is the command the invariant speaks of.
LEMMA NewestIsLast == ASSUME IInv PROVE Newest = Last
<1> DEFINE P(c) == cmd[c].state # "none"
                   /\ \A d \in Commands : d > c => cmd[d].state = "none"
<1>1. /\ Last \in Commands /\ \A c \in Commands : c \in Int
      /\ \A c \in Commands : cmd[c].state # "none" <=> c <= Last
  BY DEF IInv, Started, Commands
<1>2. P(Last)
  BY <1>1
<1>3. ASSUME NEW c \in Commands, P(c) PROVE c = Last
  BY <1>1, <1>3
<1> QED BY <1>1, <1>2, <1>3 DEF Newest

\* What the parts of the invariant say together.
LEMMA Together ==
  ASSUME IInv
  PROVE  /\ SizesAgree /\ KeysStayWithTheirCommand /\ SinkFollows /\ EndsWithTheCommand
<1>1. SizesAgree /\ EndsWithTheCommand
  BY NewestIsLast DEF IInv, SizesAgree, Sized, EndsWithTheCommand, Left, At
<1>2. SinkFollows
  <2>1. /\ sink \in [kind : {"pty", "prompt", "closed"}, shell : Commands]
        /\ sink.kind \in {"pty", "prompt", "closed"}
    BY TypesOfFields DEF IInv
  <2>2. At("ask") => sink.kind = "prompt"
    BY DEF IInv, Delivers, At
  <2>3. ASSUME At("run"), cmd[main.shell].state = "alive"
        PROVE  sink = [kind |-> "pty", shell |-> main.shell]
    <3>1. sink.kind = "pty" /\ sink.shell = main.shell
      BY <2>1, <2>3 DEF IInv, Delivers, At
    <3> QED BY <2>1, <3>1
  <2> QED BY <2>2, <2>3 DEF SinkFollows
<1>3. KeysStayWithTheirCommand
  <2>1. DOMAIN log = 1..Len(log)
    BY TypesOfFields DEF IInv
  <2> QED BY <2>1 DEF IInv, Written, KeysStayWithTheirCommand
<1> QED BY <1>1, <1>2, <1>3

\* The inductive invariant holds in every reachable state.
THEOREM Invariance == Spec => []IInv
<1> QED BY InitHolds, StepKeeps, PTL DEF Spec

\* Every variable of run_pty, its channels and its commands keeps its type.
THEOREM TypeCorrect == Spec => []TypeOK
<1>1. IInv => TypeOK
  BY DEF IInv
<1> QED BY <1>1, Invariance, PTL

\* Through resizes at any moment, prompts and restarts, the newest command's pty and the
\* viewers have the terminal's size once no SIGWINCH is pending.
THEOREM SizesAlwaysAgree == Spec => []SizesAgree
<1>1. IInv => SizesAgree
  BY Together
<1> QED BY <1>1, Invariance, PTL

\* Keystrokes reach commands in the order they were typed, none twice, and none of them
\* the command that a later keystroke started.
THEOREM KeysStay == Spec => []KeysStayWithTheirCommand
<1>1. IInv => KeysStayWithTheirCommand
  BY Together
<1> QED BY <1>1, Invariance, PTL

\* A write that ends late leaves neither the prompt deaf nor a restarted command.
THEOREM SinkAlwaysFollows == Spec => []SinkFollows
<1>1. IInv => SinkFollows
  BY Together
<1> QED BY <1>1, Invariance, PTL

\* tcomp ends with its command, or has told it to stop, and with the right code.
THEOREM EndsTogether == Spec => []EndsWithTheCommand
<1>1. IInv => EndsWithTheCommand
  BY Together
<1> QED BY <1>1, Invariance, PTL

=============================================================================
