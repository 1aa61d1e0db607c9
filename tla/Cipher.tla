------------------------------- MODULE Cipher -------------------------------
(***************************************************************************)
(* The frames of an encrypted session and both ends of them: the cipher    *)
(* object of a browser (web/static/crypto.js, create) and Sender, open and *)
(* InputReceiver of the host (src/crypto.rs).  Operators only; KeyLink and *)
(* InputPath have the state.                                               *)
(*                                                                         *)
(* The cryptography is ideal: a derived key is what it was derived from,   *)
(* and a sealed body opens under its own key, nonce and additional data    *)
(* and nothing else.  Strings of bytes are sequences, so that what derive  *)
(* and additionalData concatenate is concatenated here.  JSON and the      *)
(* fields of a payload that only the terminal looks at are left out.       *)
(***************************************************************************)
EXTENDS Integers, Sequences, FiniteSets

CONSTANTS Context,                  \* "tcomp-e2ee-v1"
          InputLabel, OutputLabel,  \* "input" and "output"
          SeqLimit,                 \* 2^64 - 1, never a sequence number
          MaxWriters                \* writers an InputReceiver keeps apart

ASSUME CipherAssumption ==
  /\ Context \in Seq(Int) /\ InputLabel \in Seq(Int) /\ OutputLabel \in Seq(Int)
  /\ Len(InputLabel) # Len(OutputLabel)
  /\ SeqLimit \in Nat \ {0} /\ MaxWriters \in Nat \ {0}

None == -1
NoWriter == <<>>

SNAPSHOT == 1
OUTPUT == 2
INPUT == 3

-----------------------------------------------------------------------------
(* Keys and frames. *)

\* A key of a session, per direction and writer.
Derive(master, session, writer, input) ==
  [master |-> master, salt |-> session,
   info |-> Context \o (IF input THEN InputLabel ELSE OutputLabel) \o writer]

\* Magic and version are the same in every frame; the rest of the header.
Header(kind, writer, sequence) ==
  [kind |-> kind, writer |-> writer, sequence |-> sequence]

Bytes(header) == <<header.kind>> \o header.writer \o <<header.sequence>>

\* Twelve bytes that end with the number: no number has the nonce of another.
Nonce(header) == header.sequence

AdditionalData(session, header) == Context \o session \o Bytes(header)

Seal(key, session, header, plain) ==
  [header |-> header,
   body |-> [key |-> key, nonce |-> Nonce(header),
             aad |-> AdditionalData(session, header), plain |-> plain]]

Decrypts(key, session, frame) ==
  /\ frame.body.key = key
  /\ frame.body.nonce = Nonce(frame.header)
  /\ frame.body.aad = AdditionalData(session, frame.header)

-----------------------------------------------------------------------------
(* The browser. *)

\* The state behind the object that create returns.
NewCipher(master, session, writer) ==
  [master |-> master, session |-> session, writer |-> writer,
   sent |-> 0, outputWriter |-> NoWriter, last |-> None, epoch |-> None]

\* open, before its await: what it can refuse without the key.
Admits(cipher, frame) ==
  /\ frame.header.kind \in {SNAPSHOT, OUTPUT}
  /\ cipher.outputWriter \in {NoWriter, frame.header.writer}

OutputKey(cipher, frame) ==
  Derive(cipher.master, cipher.session, frame.header.writer, FALSE)

\* What its await brings.
Opens(cipher, frame) ==
  Decrypts(OutputKey(cipher, frame), cipher.session, frame)

\* The rest, after the await.
Repeated(cipher, frame) ==
  cipher.last # None /\ frame.header.sequence <= cipher.last

Follows(cipher, frame) ==
  cipher.last # None /\ frame.header.sequence = cipher.last + 1

ValidSnapshot(payload) == payload.t = "snapshot" /\ payload.epoch \in Nat

ValidOutput(cipher, frame) ==
  frame.body.plain.t = "output" /\ Follows(cipher, frame)

Valid(cipher, frame) ==
  IF frame.header.kind = SNAPSHOT
  THEN ValidSnapshot(frame.body.plain)
  ELSE ValidOutput(cipher, frame)

\* Mutant: the epoch of the first snapshot stays.
OpenedOnce(cipher, frame) ==
  [cipher EXCEPT
     !.outputWriter = frame.header.writer,
     !.last = frame.header.sequence,
     !.epoch = IF @ = None THEN frame.body.plain.epoch ELSE @]

Opened(cipher, frame) ==
  [cipher EXCEPT
     !.outputWriter = frame.header.writer,
     !.last = frame.header.sequence,
     !.epoch = IF frame.header.kind = SNAPSHOT THEN frame.body.plain.epoch
               ELSE @]

\* input, before its await: it needs an epoch and a number, and takes the number.
\* That it then refuses what does not fit in a frame is InputPath's InputBegins.
MayInput(cipher) == cipher.epoch # None /\ cipher.sent < SeqLimit

\* Mutant: the number is taken after the await.
InputTakenNot(cipher) == cipher

InputTaken(cipher) == [cipher EXCEPT !.sent = @ + 1]

InputFrame(cipher, key) ==
  Seal(Derive(cipher.master, cipher.session, cipher.writer, TRUE),
       cipher.session, Header(INPUT, cipher.writer, cipher.sent),
       [t |-> "input", epoch |-> cipher.epoch, key |-> key])

-----------------------------------------------------------------------------
(* The host. *)

\* Sender::seal of a snapshot or a piece of output.
OutputFrame(master, session, writer, sequence, plain) ==
  Seal(Derive(master, session, writer, FALSE), session,
       Header(IF plain.t = "snapshot" THEN SNAPSHOT ELSE OUTPUT, writer, sequence),
       plain)

\* InputReceiver::new: its epoch and the newest number of each writer.
NewReceiver(epoch) == [epoch |-> epoch, writers |-> [w \in {} |-> 0]]

\* header: one of the kinds, and a number of 64 bits.
Parses(frame) ==
  /\ frame.header.kind \in {SNAPSHOT, OUTPUT, INPUT}
  /\ frame.header.sequence \in Nat

\* open for input, which InputReceiver::receive begins with.
OpensInput(master, session, frame) ==
  /\ Parses(frame) /\ frame.header.kind = INPUT
  /\ Decrypts(Derive(master, session, frame.header.writer, TRUE), session, frame)

\* Mutant: any number is taken, as from a writer that is new.
FreshOfAny(receiver, header) == TRUE

\* Mutant: input sealed for an earlier connection is taken.
ExpectsAny(receiver, payload) == payload.t = "input"

Expects(receiver, payload) ==
  payload.t = "input" /\ payload.epoch = receiver.epoch

Fresh(receiver, header) ==
  IF header.writer \in DOMAIN receiver.writers
  THEN header.sequence > receiver.writers[header.writer]
  ELSE Cardinality(DOMAIN receiver.writers) < MaxWriters

Receives(receiver, master, session, frame) ==
  /\ OpensInput(master, session, frame)
  /\ Expects(receiver, frame.body.plain)
  /\ Fresh(receiver, frame.header)

Received(receiver, frame) ==
  [receiver EXCEPT !.writers =
     [w \in DOMAIN @ \cup {frame.header.writer} |->
        IF w = frame.header.writer THEN frame.header.sequence ELSE @[w]]]

=============================================================================
