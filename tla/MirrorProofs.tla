---------------------------- MODULE MirrorProofs ----------------------------
(***************************************************************************)
(* Theorems about PlainMirror for any number of viewers, chunks, titles    *)
(* and sizes and any limits, through takeovers that overlap: a viewer that *)
(* lost nothing shows the session once it has read all there is, and the   *)
(* history is the newest output.                                           *)
(***************************************************************************)
EXTENDS PlainMirror, SequenceTheorems, WellFoundedInduction, TLAPS

Receivers == [on : BOOLEAN, strayed : BOOLEAN, lagged : BOOLEAN,
              backlog : Seq(Frames), queue : Seq(Frames),
              n : Nat \cup {Garbled, Blank},
              wrap : Sizes \cup {0}, size : Sizes \cup {0},
              title : Titles \cup {NoTitle}, status : Statuses]

\* What a browser shows.
Views == [n : Nat \cup {Garbled, Blank},
          wrap : Sizes \cup {0}, size : Sizes \cup {0},
          title : Titles \cup {NoTitle}, status : Statuses]

View(w) == [n |-> w.n, wrap |-> w.wrap, size |-> w.size, title |-> w.title,
            status |-> w.status]

\* A browser that shows session x, with a status of its own.
Shown(x, status) == [n |-> x.n, wrap |-> x.size, size |-> x.size, title |-> x.title,
                     status |-> status]

\* A browser that shows a shows e once it has handled the frames s.
LeadsTo(a, s, e) ==
  \E p \in [0..Len(s) -> Views] :
    /\ p[0] = a /\ p[Len(s)] = e
    /\ \A i \in 1..Len(s) : p[i] = Shows(p[i - 1], s[i])

-----------------------------------------------------------------------------
(* The inductive invariant. *)

\* TypeOK, but for the length of the history.
Typed ==
  /\ \E length :
       session \in [n : 0..MaxChunks, size : Sizes, title : Titles \cup {NoTitle},
                    status : Statuses, epoch : 0..MaxEpoch, history : Seq(Frames),
                    historyLen : {length}]
  /\ handler \in [0..MaxEpoch -> Phases] /\ late \in BOOLEAN
  /\ viewer \in [Viewers -> Receivers]

\* A status that a viewer's last frame may tell it.
Heard(status) == status \in Statuses /\ Told(status)

\* The same after the step.
HeardNext(status) ==
  /\ status \in Statuses
  /\ \/ status = session'.status
     \/ session'.status = "live" /\ handler'[session'.epoch] = "announce"
     \/ late' /\ status = "live"

HistoryIsOutput == \A i \in 1..Len(session.history) : session.history[i].kind = "data"

\* What a viewer that lost nothing has still to read leads to the session.
Following ==
  \A v \in Viewers :
    LET w == viewer[v] IN
      /\ w.lagged => w.strayed
      /\ w.on /\ ~w.strayed =>
           \E status : /\ Heard(status)
                       /\ LeadsTo(View(w), w.backlog \o w.queue, Shown(session, status))

IInv ==
  /\ Typed
  /\ HistoryIsOutput /\ HistoryIsNewest
  /\ Following

-----------------------------------------------------------------------------
(* Frames and what they lead to. *)

\* What a sequence holds.
LEMMA Emptied ==
  ASSUME NEW S, NEW s \in Seq(S)
  PROVE  /\ Len(s) \in Nat /\ (s = <<>> <=> Len(s) = 0)
         /\ \A i \in 1..Len(s) : s[i] \in S
BY EmptySeq, ElementOfSeq

\* A set of numbers has a least.
LEMMA LeastOfNat ==
  ASSUME NEW T, T \subseteq Nat, T # {}
  PROVE  \E i \in T : \A j \in T : i <= j
<1> DEFINE R == OpToRel(<, Nat)
<1>1. IsWellFoundedOn(R, Nat)
  BY NatLessThanWellFounded
<1>2. \A x, y \in Nat : y < x => <<y, x>> \in R
  BY DEF OpToRel
<1> HIDE DEF R
<1>3. PICK i \in T : \A j \in T : ~(<<j, i>> \in R)
  BY <1>1, WFMin
<1>4. \A j \in T : ~(j < i)
  BY <1>2, <1>3
<1> QED BY <1>4

\* Sequences of frames in a row.
LEMMA FramesAssociate ==
  ASSUME NEW s \in Seq(Frames), NEW t \in Seq(Frames), NEW u \in Seq(Frames)
  PROVE  (s \o t) \o u = s \o (t \o u)
BY ConcatAssociative

\* The first frame of two sequences in a row.
LEMMA FirstOfTwo ==
  ASSUME NEW s \in Seq(Frames), s # <<>>, NEW t \in Seq(Frames)
  PROVE  /\ Head(s) \in Frames /\ Tail(s) \in Seq(Frames)
         /\ s \o t # <<>> /\ Head(s \o t) = Head(s) /\ Tail(s \o t) = Tail(s) \o t
<1> DEFINE u == s \o t
           x == Tail(u)
           y == Tail(s) \o t
<1>1. Len(s) \in Nat /\ Len(s) > 0 /\ Head(s) = s[1] /\ Len(t) \in Nat /\ Head(s) \in Frames
  BY Emptied, HeadTailProperties
<1>2. /\ u \in Seq(Frames) /\ Len(u) = Len(s) + Len(t)
      /\ \A i \in 1..(Len(s) + Len(t)) : u[i] = IF i <= Len(s) THEN s[i] ELSE t[i - Len(s)]
  BY ConcatProperties
<1>3. /\ Tail(s) \in Seq(Frames) /\ Len(Tail(s)) = Len(s) - 1
      /\ \A i \in 1..Len(Tail(s)) : Tail(s)[i] = s[i + 1]
  BY HeadTailProperties
<1>4. u # <<>>
  BY <1>1, <1>2, Emptied
<1>5. Head(u) = u[1]
  BY <1>2, <1>4, HeadTailProperties
<1>6. u[1] = s[1]
  BY <1>1, <1>2
<1>7. /\ x \in Seq(Frames) /\ Len(x) = Len(s) + Len(t) - 1
      /\ \A i \in 1..Len(x) : x[i] = u[i + 1]
  BY <1>2, <1>4, HeadTailProperties
<1>8. /\ y \in Seq(Frames) /\ Len(y) = Len(s) + Len(t) - 1
      /\ \A i \in 1..Len(y) :
           y[i] = IF i <= Len(s) - 1 THEN Tail(s)[i] ELSE t[i - (Len(s) - 1)]
  BY <1>1, <1>3, ConcatProperties
<1> HIDE DEF x, y, u
<1>9. ASSUME NEW i \in 1..Len(x) PROVE x[i] = y[i]
  <2>1. CASE i <= Len(s) - 1
    BY <1>1, <1>2, <1>3, <1>7, <1>8, <1>9, <2>1
  <2>2. CASE i > Len(s) - 1
    <3>1. i + 1 \in 1..(Len(s) + Len(t)) /\ ~(i + 1 <= Len(s))
      BY <1>1, <1>7, <2>2
    <3>2. i - (Len(s) - 1) = (i + 1) - Len(s)
      BY <1>1, <1>7
    <3>3. x[i] = t[(i + 1) - Len(s)]
      BY <1>2, <1>7, <3>1
    <3>4. y[i] = t[i - (Len(s) - 1)]
      BY <1>1, <1>7, <1>8, <2>2
    <3> QED BY <3>2, <3>3, <3>4
  <2> QED BY <1>1, <1>7, <2>1, <2>2
<1>10. x = y
  BY <1>7, <1>8, <1>9, SeqEqual
<1> QED BY <1>1, <1>3, <1>4, <1>5, <1>6, <1>10 DEF u, x, y

\* What the fields of a frame hold.
LEMMA FrameFields ==
  ASSUME NEW f \in Frames
  PROVE  /\ f.kind \in {"data", "dump", "reset", "resize", "title", "status"}
         /\ f.kind = "data" => f.n \in Nat
         /\ f.kind = "dump" => f.n \in Nat /\ f.wrap \in Sizes
         /\ f.kind = "resize" => f.size \in Sizes
         /\ f.kind = "title" => f.title \in Titles
         /\ f.kind = "status" => f.status \in Statuses
BY DEF Frames

\* What a browser shows is a view.
LEMMA ViewIsOne ==
  ASSUME NEW w \in Receivers
  PROVE  View(w) \in Views
BY DEF Receivers, Views, View

\* Views are their fields.
LEMMA SameView ==
  ASSUME NEW a \in Views, NEW b \in Views,
         a.n = b.n, a.wrap = b.wrap, a.size = b.size, a.title = b.title,
         a.status = b.status
  PROVE  a = b
<1>1. a = [n |-> a.n, wrap |-> a.wrap, size |-> a.size, title |-> a.title,
           status |-> a.status]
  BY DEF Views
<1>2. b = [n |-> b.n, wrap |-> b.wrap, size |-> b.size, title |-> b.title,
           status |-> b.status]
  BY DEF Views
<1> QED BY <1>1, <1>2

\* What a frame with a whole screen does.
Replaced(w, n, wrap) == [w EXCEPT !.n = n, !.wrap = wrap]

\* It leaves the rest of a receiver alone.
LEMMA ReplacesScreen ==
  ASSUME NEW w \in Receivers, NEW n \in Nat \cup {Garbled, Blank}, NEW wrap \in Sizes \cup {0}
  PROVE  /\ Replaced(w, n, wrap) \in Receivers
         /\ Replaced(View(w), n, wrap) = View(Replaced(w, n, wrap))
         /\ Replaced(w, n, wrap).queue = w.queue
         /\ Replaced(w, n, wrap).backlog = w.backlog
         /\ Replaced(w, n, wrap).on = w.on
         /\ Replaced(w, n, wrap).strayed = w.strayed
         /\ Replaced(w, n, wrap).lagged = w.lagged
<1> DEFINE r == Replaced(w, n, wrap)
           u == Replaced(View(w), n, wrap)
<1>1. r \in Receivers
  BY DEF Receivers, Replaced
<1>2. /\ r.queue = w.queue /\ r.backlog = w.backlog /\ r.on = w.on
      /\ r.strayed = w.strayed /\ r.lagged = w.lagged
      /\ r.n = n /\ r.wrap = wrap /\ r.size = w.size
      /\ r.title = w.title /\ r.status = w.status
  BY DEF Receivers, Replaced
<1> HIDE DEF r
<1>3. View(w) \in Views /\ View(r) \in Views
  BY <1>1, ViewIsOne
<1>4. /\ u \in Views /\ u.n = n /\ u.wrap = wrap /\ u.size = View(w).size
      /\ u.title = View(w).title /\ u.status = View(w).status
  BY <1>3 DEF Views, Replaced
<1> HIDE DEF u
<1>5. /\ u.n = View(r).n /\ u.wrap = View(r).wrap /\ u.size = View(r).size
      /\ u.title = View(r).title /\ u.status = View(r).status
  BY <1>2, <1>4 DEF View
<1> QED BY <1>1, <1>2, <1>3, <1>4, <1>5, SameView DEF r, u

\* The same of what a browser shows.
LEMMA ReplacesTheView ==
  ASSUME NEW a \in Views, NEW n \in Nat \cup {Garbled, Blank}, NEW wrap \in Sizes \cup {0}
  PROVE  Replaced(a, n, wrap) \in Views
BY DEF Views, Replaced

\* A browser handles a frame whatever its receiver has to do.
LEMMA ShowsView ==
  ASSUME NEW w \in Receivers, NEW f \in Frames
  PROVE  /\ Shows(View(w), f) = View(Shows(w, f))
         /\ Shows(w, f) \in Receivers
         /\ Shows(w, f).queue = w.queue /\ Shows(w, f).backlog = w.backlog
         /\ Shows(w, f).on = w.on /\ Shows(w, f).strayed = w.strayed
         /\ Shows(w, f).lagged = w.lagged
<1>1. /\ f.kind \in {"data", "dump", "reset", "resize", "title", "status"}
      /\ f.kind = "data" => f.n \in Nat
      /\ f.kind = "dump" => f.n \in Nat /\ f.wrap \in Sizes
      /\ f.kind = "resize" => f.size \in Sizes
      /\ f.kind = "title" => f.title \in Titles
      /\ f.kind = "status" => f.status \in Statuses
  BY FrameFields
<1>2. CASE f.kind = "data"
  BY SMTT(30), <1>1, <1>2 DEF Receivers, View, Shows
<1>3. CASE f.kind = "dump"
  <2>1. /\ Shows(w, f) = Replaced(w, f.n, f.wrap)
        /\ Shows(View(w), f) = Replaced(View(w), f.n, f.wrap)
    BY <1>3 DEF Shows, Replaced
  <2>2. f.n \in Nat \cup {Garbled, Blank} /\ f.wrap \in Sizes \cup {0}
    BY <1>1, <1>3
  <2>4. /\ Replaced(w, f.n, f.wrap) \in Receivers
        /\ Replaced(View(w), f.n, f.wrap) = View(Replaced(w, f.n, f.wrap))
        /\ Replaced(w, f.n, f.wrap).queue = w.queue
        /\ Replaced(w, f.n, f.wrap).backlog = w.backlog
        /\ Replaced(w, f.n, f.wrap).on = w.on
        /\ Replaced(w, f.n, f.wrap).strayed = w.strayed
        /\ Replaced(w, f.n, f.wrap).lagged = w.lagged
    BY <2>2, ReplacesScreen
  <2> QED BY <2>1, <2>4
<1>4. CASE f.kind = "reset"
  <2>1. w.size \in Sizes \cup {0} /\ View(w).size = w.size
    BY DEF Receivers, View
  <2>2. /\ Shows(w, f) = Replaced(w, Blank, w.size)
        /\ Shows(View(w), f) = Replaced(View(w), Blank, w.size)
    BY <1>4, <2>1 DEF Shows, Replaced
  <2>3. Blank \in Nat \cup {Garbled, Blank}
    OBVIOUS
  <2>4. /\ Replaced(w, Blank, w.size) \in Receivers
        /\ Replaced(View(w), Blank, w.size) = View(Replaced(w, Blank, w.size))
        /\ Replaced(w, Blank, w.size).queue = w.queue
        /\ Replaced(w, Blank, w.size).backlog = w.backlog
        /\ Replaced(w, Blank, w.size).on = w.on
        /\ Replaced(w, Blank, w.size).strayed = w.strayed
        /\ Replaced(w, Blank, w.size).lagged = w.lagged
    BY <2>1, <2>3, ReplacesScreen
  <2> QED BY <2>2, <2>4
<1>5. CASE f.kind = "resize"
  BY SMTT(30), <1>1, <1>5 DEF Receivers, View, Shows
<1>6. CASE f.kind = "title"
  BY SMTT(30), <1>1, <1>6 DEF Receivers, View, Shows
<1>7. CASE f.kind = "status"
  BY SMTT(30), <1>1, <1>7 DEF Receivers, View, Shows
<1> QED BY <1>1, <1>2, <1>3, <1>4, <1>5, <1>6, <1>7

\* A view stays one.
LEMMA ShowsAView ==
  ASSUME NEW a \in Views, NEW f \in Frames
  PROVE  Shows(a, f) \in Views
<1>1. /\ f.kind \in {"data", "dump", "reset", "resize", "title", "status"}
      /\ f.kind = "data" => f.n \in Nat
      /\ f.kind = "dump" => f.n \in Nat /\ f.wrap \in Sizes
      /\ f.kind = "resize" => f.size \in Sizes
      /\ f.kind = "title" => f.title \in Titles
      /\ f.kind = "status" => f.status \in Statuses
  BY FrameFields
<1>2. CASE f.kind = "data"
  BY SMTT(30), <1>1, <1>2 DEF Views, Shows
<1>3. CASE f.kind = "dump"
  <2>1. Shows(a, f) = Replaced(a, f.n, f.wrap)
    BY <1>3 DEF Shows, Replaced
  <2> QED BY <1>1, <1>3, <2>1, ReplacesTheView
<1>4. CASE f.kind = "reset"
  <2>1. a.size \in Sizes \cup {0}
    BY DEF Views
  <2>2. Shows(a, f) = Replaced(a, Blank, a.size)
    BY <1>4 DEF Shows, Replaced
  <2> QED BY <2>1, <2>2, ReplacesTheView
<1>5. CASE f.kind = "resize"
  BY SMTT(30), <1>1, <1>5 DEF Views, Shows
<1>6. CASE f.kind = "title"
  BY SMTT(30), <1>1, <1>6 DEF Views, Shows
<1>7. CASE f.kind = "status"
  BY SMTT(30), <1>1, <1>7 DEF Views, Shows
<1> QED BY <1>1, <1>2, <1>3, <1>4, <1>5, <1>6, <1>7

\* Nothing to read leads nowhere else.
LEMMA LeadsNowhere ==
  ASSUME NEW a, NEW e, LeadsTo(a, <<>>, e)
  PROVE  e = a
BY EmptySeq DEF LeadsTo

\* One frame leads to what it shows.
LEMMA LeadsOne ==
  ASSUME NEW a \in Views, NEW f \in Frames
  PROVE  LeadsTo(a, <<f>>, Shows(a, f)) /\ Shows(a, f) \in Views
<1> DEFINE p == [i \in 0..1 |-> IF i = 0 THEN a ELSE Shows(a, f)]
<1>1. Len(<<f>>) = 1 /\ <<f>>[1] = f
  OBVIOUS
<1>2. Shows(a, f) \in Views
  BY ShowsAView
<1>3. p \in [0..1 -> Views] /\ p[0] = a /\ p[1] = Shows(a, f)
  BY <1>2
<1> HIDE DEF p
<1>4. \A i \in 1..1 : p[i] = Shows(p[i - 1], <<f>>[i])
  BY <1>1, <1>3
<1> QED BY <1>1, <1>2, <1>3, <1>4 DEF LeadsTo

\* What leads on from where the first frames lead.
LEMMA LeadsFurther ==
  ASSUME NEW s \in Seq(Frames), NEW t \in Seq(Frames), NEW a, NEW b, NEW c,
         LeadsTo(a, s, b), LeadsTo(b, t, c)
  PROVE  LeadsTo(a, s \o t, c)
<1> DEFINE m == Len(s)
           n == Len(t)
           u == s \o t
<1> PICK p \in [0..m -> Views] :
           p[0] = a /\ p[m] = b /\ \A i \in 1..m : p[i] = Shows(p[i - 1], s[i])
  BY DEF LeadsTo
<1> PICK q \in [0..n -> Views] :
           q[0] = b /\ q[n] = c /\ \A i \in 1..n : q[i] = Shows(q[i - 1], t[i])
  BY DEF LeadsTo
<1> DEFINE r == [i \in 0..(m + n) |-> IF i <= m THEN p[i] ELSE q[i - m]]
<1>1. /\ m \in Nat /\ n \in Nat /\ Len(u) = m + n
      /\ \A i \in 1..(m + n) : u[i] = IF i <= m THEN s[i] ELSE t[i - m]
  BY ConcatProperties, LenProperties
<1>2. r \in [0..(m + n) -> Views]
  BY <1>1
<1>3. /\ \A i \in 0..m : r[i] = p[i]
      /\ \A i \in 0..n : r[m + i] = q[i]
  BY <1>1
<1> HIDE DEF r, u
<1>4. r[0] = a /\ r[m + n] = c
  BY <1>1, <1>3
<1>5. ASSUME NEW i \in 1..(m + n) PROVE r[i] = Shows(r[i - 1], u[i])
  <2>1. CASE i <= m
    <3>1. i \in 0..m /\ i - 1 \in 0..m /\ i \in 1..m
      BY <1>1, <2>1
    <3> QED BY <1>1, <1>3, <2>1, <3>1
  <2>2. CASE i > m
    <3> DEFINE j == i - m
    <3>1. j \in 1..n /\ j \in 0..n /\ j - 1 \in 0..n /\ m + j = i /\ m + (j - 1) = i - 1
      BY <1>1, <2>2
    <3>2. r[i] = q[j] /\ r[i - 1] = q[j - 1]
      BY <1>3, <3>1, Zenon
    <3>3. u[i] = t[j]
      BY <1>1, <2>2
    <3> QED BY <3>1, <3>2, <3>3
  <2> QED BY <1>1, <2>1, <2>2
<1> QED BY <1>1, <1>2, <1>4, <1>5 DEF LeadsTo, u

\* After the first frame the rest leads to the same.
LEMMA LeadsOn ==
  ASSUME NEW s \in Seq(Frames), s # <<>>, NEW a, NEW e, LeadsTo(a, s, e)
  PROVE  LeadsTo(Shows(a, Head(s)), Tail(s), e)
<1> DEFINE t == Tail(s)
<1> PICK p \in [0..Len(s) -> Views] :
           p[0] = a /\ p[Len(s)] = e /\ \A i \in 1..Len(s) : p[i] = Shows(p[i - 1], s[i])
  BY DEF LeadsTo
<1> DEFINE q == [i \in 0..Len(t) |-> p[i + 1]]
<1>1. /\ Len(s) \in Nat /\ Len(s) > 0 /\ Len(t) = Len(s) - 1 /\ Head(s) = s[1]
      /\ \A i \in 1..Len(t) : t[i] = s[i + 1]
  BY Emptied, HeadTailProperties
<1> HIDE DEF t
<1>2. q \in [0..Len(t) -> Views]
  BY <1>1
<1>3. \A i \in 0..Len(t) : q[i] = p[i + 1]
  OBVIOUS
<1> HIDE DEF q
<1>4. q[0] = Shows(a, Head(s)) /\ q[Len(t)] = e
  BY <1>1, <1>3
<1>5. ASSUME NEW i \in 1..Len(t) PROVE q[i] = Shows(q[i - 1], t[i])
  <2>1. i + 1 \in 1..Len(s) /\ i - 1 \in 0..Len(t) /\ i \in 0..Len(t)
        /\ (i + 1) - 1 = i /\ (i - 1) + 1 = i
    BY <1>1
  <2>2. q[i] = p[i + 1] /\ q[i - 1] = p[i] /\ t[i] = s[i + 1]
    BY <1>1, <1>3, <2>1
  <2>3. p[i + 1] = Shows(p[i], s[i + 1])
    BY <2>1
  <2> QED BY <2>2, <2>3
<1> QED BY <1>2, <1>4, <1>5 DEF LeadsTo, t

\* History on a blank browser leads to its newest chunk.
LEMMA HistoryLeads ==
  ASSUME NEW h \in Seq(Frames), h # <<>>, NEW n \in Nat, NEW a \in Views, a.n = Blank,
         \A i \in 1..Len(h) : h[i].kind = "data" /\ h[i].n = n - Len(h) + i
  PROVE  LeadsTo(a, h, [a EXCEPT !.n = n])
<1> DEFINE p == [i \in 0..Len(h) |-> IF i = 0 THEN a ELSE [a EXCEPT !.n = h[i].n]]
<1>1. Len(h) \in Nat /\ Len(h) > 0 /\ \A i \in 1..Len(h) : h[i] \in Frames
  BY Emptied
<1>2. \A i \in 1..Len(h) : h[i].n \in Nat
  BY <1>1, FrameFields
<1>3. p \in [0..Len(h) -> Views]
  <2>1. \A i \in 1..Len(h) : [a EXCEPT !.n = h[i].n] \in Views
    BY <1>2 DEF Views
  <2> QED BY <1>1, <2>1
<1>4. p[0] = a /\ \A i \in 1..Len(h) : p[i] = [a EXCEPT !.n = h[i].n]
  BY <1>1
<1> HIDE DEF p
<1>5. p[Len(h)] = [a EXCEPT !.n = n]
  <2>1. Len(h) \in 1..Len(h) /\ h[Len(h)].n = n
    BY <1>1
  <2> QED BY <1>4, <2>1
<1>6. ASSUME NEW i \in 1..Len(h) PROVE p[i] = Shows(p[i - 1], h[i])
  <2> DEFINE b == p[i - 1]
  <2>1. /\ b.n = IF i = 1 THEN Blank ELSE h[i].n - 1
        /\ [b EXCEPT !.n = h[i].n] = [a EXCEPT !.n = h[i].n]
    <3>1. CASE i = 1
      BY <1>4, <3>1
    <3>2. CASE i # 1
      <4>1. i - 1 \in 1..Len(h) /\ h[i - 1].n = h[i].n - 1
        BY <1>1, <1>2, <3>2
      <4>2. b = [a EXCEPT !.n = h[i - 1].n]
        BY <1>4, <4>1
      <4> QED BY <3>2, <4>1, <4>2 DEF Views
    <3> QED BY <3>1, <3>2
  <2>2. h[i].kind = "data"
    OBVIOUS
  <2> HIDE DEF b
  <2>3. Shows(b, h[i]) = [b EXCEPT !.n = h[i].n]
    BY <2>1, <2>2 DEF Shows
  <2> QED BY <1>4, <2>1, <2>3 DEF b
<1> QED BY <1>3, <1>4, <1>5, <1>6 DEF LeadsTo

\* What a receiver gets: what it has kept and the new, or it knows that it lost some.
LEMMA GetsFrames ==
  ASSUME NEW w \in Receivers, NEW fs \in Seq(Frames)
  PROVE  /\ Gets(w, fs) \in Receivers /\ Gets(w, fs).on = w.on
         /\ View(Gets(w, fs)) = View(w)
         /\ Gets(w, fs).backlog = w.backlog
         /\ (w.lagged => w.strayed) => (Gets(w, fs).lagged => Gets(w, fs).strayed)
         /\ ~Gets(w, fs).strayed => ~w.strayed /\ Gets(w, fs).queue = w.queue \o fs
<1> DEFINE q == w.queue \o fs
           lost == Len(q) > RingSize
           r == Gets(w, fs)
<1>1. w.queue \in Seq(Frames) /\ q \in Seq(Frames) /\ Len(q) \in Nat
  BY ConcatProperties, LenProperties DEF Receivers
<1>2. Newest(q) \in Seq(Frames)
  <2>1. \A i \in 1..Len(q) : q[i] \in Frames
    BY <1>1, ElementOfSeq
  <2> DEFINE first == IF Len(q) > RingSize THEN Len(q) - RingSize + 1 ELSE 1
  <2>2. first \in Nat /\ first >= 1
    BY <1>1, MirrorAssumption
  <2> HIDE DEF first, q
  <2>3. SubSeq(q, first, Len(q)) \in Seq(Frames)
    BY <1>1, <2>1, <2>2, SubSeqProperties
  <2> QED BY <2>3 DEF Newest, first
<1>3. ~lost => Newest(q) = q
  BY <1>1, SubSeqFull DEF Newest
<1>4. r = [w EXCEPT !.queue = Newest(q), !.lagged = w.lagged \/ lost,
                    !.strayed = w.strayed \/ lost]
  BY Zenon DEF Gets
<1>5. lost \in BOOLEAN
  OBVIOUS
<1> HIDE DEF q, lost, r
<1>6. /\ r.on = w.on /\ r.backlog = w.backlog
      /\ r.queue = Newest(q)
      /\ r.lagged = (w.lagged \/ lost) /\ r.strayed = (w.strayed \/ lost)
  BY <1>4 DEF Receivers
<1>7. /\ r.n = w.n /\ r.wrap = w.wrap /\ r.size = w.size /\ r.title = w.title
      /\ r.status = w.status
  BY <1>4 DEF Receivers
<1>8. r \in Receivers
  <2>1. ASSUME NEW queue \in Seq(Frames), NEW lagged \in BOOLEAN, NEW strayed \in BOOLEAN
        PROVE  [w EXCEPT !.queue = queue, !.lagged = lagged, !.strayed = strayed]
                 \in Receivers
    BY DEF Receivers
  <2>2. w.lagged \in BOOLEAN /\ w.strayed \in BOOLEAN
    BY DEF Receivers
  <2> QED BY <1>2, <1>4, <1>5, <2>1, <2>2, Zenon
<1>9. View(r) = View(w)
  BY <1>7 DEF View
<1> QED BY <1>3, <1>6, <1>8, <1>9 DEF r, q

\* What is evicted is at the front, and no more stays than fits.
LEMMA EvictedKeeps ==
  ASSUME NEW h \in Seq(Frames), h # <<>>
  PROVE  \E first \in 1..Len(h) : \E length :
           /\ Evicted(h) = [history |-> SubSeq(h, first, Len(h)), length |-> length]
           /\ length <= HistoryCap \/ first = Len(h)
<1> DEFINE total[k \in 0..Len(h)] == IF k = 0 THEN 0 ELSE total[k - 1] + h[k].size
           Length(i) == total[Len(h)] - total[i - 1]
           Fits(i) == Length(i) <= HistoryCap \/ i = Len(h)
           Least(i) == Fits(i) /\ \A j \in 1..(i - 1) : ~Fits(j)
           first == CHOOSE i \in 1..Len(h) : Least(i)
<1>1. Evicted(h) = [history |-> SubSeq(h, first, Len(h)), length |-> Length(first)]
  BY Zenon DEF Evicted
<1>2. Len(h) \in Nat /\ Len(h) > 0
  BY Emptied
<1> HIDE DEF total, Length
<1>3. \E i \in 1..Len(h) : Least(i)
  <2> DEFINE T == {i \in 1..Len(h) : Fits(i)}
  <2>1. T \subseteq Nat /\ Len(h) \in T
    BY <1>2
  <2>2. PICK i \in T : \A j \in T : i <= j
    BY <2>1, LeastOfNat
  <2>3. i \in 1..Len(h) /\ Fits(i)
    OBVIOUS
  <2>4. ASSUME NEW j \in 1..(i - 1) PROVE ~Fits(j)
    <3>1. j \in 1..Len(h) /\ ~(i <= j)
      BY <1>2, <2>3
    <3> QED BY <2>2, <3>1
  <2> QED BY <2>3, <2>4
<1> HIDE DEF Fits
<1>4. first \in 1..Len(h) /\ Fits(first)
  BY <1>3
<1> HIDE DEF first
<1> QED BY <1>1, <1>4 DEF Fits

-----------------------------------------------------------------------------
(* Steps of the relay. *)

\* Nothing has been shown or sent.
LEMMA InitHolds == Init => IInv
<1> SUFFICES ASSUME Init PROVE IInv
  OBVIOUS
<1>1. /\ session.n = 0 /\ session.size \in Sizes /\ session.title = NoTitle
      /\ session.status = "live" /\ session.epoch = 0 /\ session.history = <<>>
      /\ session.historyLen = 0
  BY DEF Init
<1>2. Away \in Receivers
  <2>1. <<>> \in Seq(Frames)
    BY EmptySeq
  <2> QED BY <2>1 DEF Away, Receivers, Statuses
<1>3. viewer \in [Viewers -> Receivers] /\ \A v \in Viewers : viewer[v] = Away
  BY <1>2 DEF Init
<1>4. Typed
  <2>1. session \in [n : 0..MaxChunks, size : Sizes, title : Titles \cup {NoTitle},
                     status : Statuses, epoch : 0..MaxEpoch, history : Seq(Frames),
                     historyLen : {0}]
    <3>1. <<>> \in Seq(Frames)
      BY EmptySeq
    <3>2. 0 \in 0..MaxChunks /\ 0 \in 0..MaxEpoch
      BY MirrorAssumption
    <3>3. "live" \in Statuses
      BY DEF Statuses
    <3> QED BY <3>1, <3>2, <3>3 DEF Init
  <2>2. handler \in [0..MaxEpoch -> Phases] /\ late \in BOOLEAN
    BY DEF Init, Phases
  <2> QED BY <1>3, <2>1, <2>2 DEF Typed
<1>5. HistoryIsOutput /\ HistoryIsNewest
  <2>1. Len(session.history) = 0
    BY <1>1, EmptySeq
  <2>2. session.historyLen <= HistoryCap
    BY <1>1, MirrorAssumption
  <2>3. ~\E i \in 1..Len(session.history) : TRUE
    BY <2>1
  <2> QED BY <2>2, <2>3, Zenon DEF HistoryIsOutput, HistoryIsNewest
<1>6. Following
  <2>1. \A v \in Viewers : ~viewer[v].on /\ ~viewer[v].lagged
    <3>1. Away.on = FALSE /\ Away.lagged = FALSE
      BY DEF Away
    <3> QED BY <1>3, <3>1, Zenon
  <2> QED BY <2>1, Zenon DEF Following
<1> QED BY <1>4, <1>5, <1>6 DEF IInv

\* A broadcast that leads a browser that shows the session to show it again keeps every
\* viewer following.
LEMMA BroadcastFollows ==
  ASSUME Typed, Following, NEW fs \in Seq(Frames), Broadcast(fs),
         \A t : Heard(t) =>
           \E u : HeardNext(u) /\ LeadsTo(Shown(session, t), fs, Shown(session', u))
  PROVE  viewer' \in [Viewers -> Receivers] /\ Following'
<1>1. \A v \in Viewers : viewer[v] \in Receivers
  BY DEF Typed
<1>2. \A v \in Viewers :
         viewer'[v] = IF viewer[v].on THEN Gets(viewer[v], fs) ELSE viewer[v]
  BY DEF Broadcast
<1>3. viewer' \in [Viewers -> Receivers]
  <2>1. \A v \in Viewers : Gets(viewer[v], fs) \in Receivers
    BY <1>1, GetsFrames
  <2> QED BY <1>1, <2>1 DEF Broadcast
<1>4. ASSUME NEW v \in Viewers
      PROVE  LET w == viewer'[v] IN
             /\ w.lagged => w.strayed
             /\ w.on /\ ~w.strayed =>
                  \E u : /\ HeardNext(u)
                         /\ LeadsTo(View(w), w.backlog \o w.queue, Shown(session', u))
  <2> DEFINE w == viewer[v]
             x == viewer'[v]
  <2>1. w \in Receivers /\ w.backlog \in Seq(Frames) /\ w.queue \in Seq(Frames)
    BY <1>1 DEF Receivers
  <2>2. /\ w.lagged => w.strayed
        /\ w.on /\ ~w.strayed =>
             \E t : /\ Heard(t)
                    /\ LeadsTo(View(w), w.backlog \o w.queue, Shown(session, t))
    BY DEF Following
  <2>3. CASE ~w.on
    BY <1>2, <2>2, <2>3
  <2>4. CASE w.on
    <3> HIDE DEF w
    <3>1. x = Gets(w, fs)
      BY <1>2, <2>4 DEF w
    <3> HIDE DEF x
    <3>2. x.lagged => x.strayed
      BY <2>1, <2>2, <3>1, GetsFrames
    <3>3. ASSUME ~x.strayed
          PROVE  \E u : /\ HeardNext(u)
                        /\ LeadsTo(View(x), x.backlog \o x.queue, Shown(session', u))
      <4>1. /\ ~w.strayed /\ x.queue = w.queue \o fs
            /\ x.backlog = w.backlog /\ View(x) = View(w)
        BY <2>1, <3>1, <3>3, GetsFrames
      <4>2. PICK t : Heard(t)
                     /\ LeadsTo(View(w), w.backlog \o w.queue, Shown(session, t))
        BY <2>2, <2>4, <4>1
      <4>3. PICK u : /\ HeardNext(u)
                     /\ LeadsTo(Shown(session, t), fs, Shown(session', u))
        BY <4>2
      <4>4. w.backlog \o w.queue \in Seq(Frames)
        BY <2>1, ConcatProperties
      <4>5. LeadsTo(View(w), (w.backlog \o w.queue) \o fs, Shown(session', u))
        BY <4>2, <4>3, <4>4, LeadsFurther
      <4>6. (w.backlog \o w.queue) \o fs = w.backlog \o (w.queue \o fs)
        BY <2>1, FramesAssociate
      <4> QED BY <4>1, <4>3, <4>5, <4>6
    <3> QED BY <3>2, <3>3 DEF x
  <2> QED BY <2>3, <2>4
<1> QED BY <1>3, <1>4 DEF Following, Heard, HeardNext, Told, Live

\* A browser that shows the session is a browser.
LEMMA ShownIsAView ==
  ASSUME Typed, NEW t \in Statuses
  PROVE  Shown(session, t) \in Views
<1>1. PICK length :
        session \in [n : 0..MaxChunks, size : Sizes, title : Titles \cup {NoTitle},
                     status : Statuses, epoch : 0..MaxEpoch, history : Seq(Frames),
                     historyLen : {length}]
  BY DEF Typed
<1>2. session.n \in 0..MaxChunks /\ session.size \in Sizes
      /\ session.title \in Titles \cup {NoTitle}
  BY <1>1
<1>3. session.n \in Nat
  BY <1>2, MirrorAssumption
<1> QED BY <1>2, <1>3 DEF Shown, Views

\* A handler that is not about to say Live goes on.
GoesOn ==
  /\ handler' \in [0..MaxEpoch -> Phases]
  /\ handler[session.epoch] = "announce" => handler'[session.epoch] = "announce"

\* What is heard may still be, if neither status nor epoch changes meanwhile.
LEMMA HeardStays ==
  ASSUME GoesOn, late' = late, session'.status = session.status,
         session'.epoch = session.epoch, NEW t, Heard(t)
  PROVE  HeardNext(t)
BY DEF GoesOn, Heard, HeardNext, Told, Live

\* Output.
LEMMA FeedKeeps ==
  ASSUME IInv, Feed, GoesOn
  PROVE  IInv'
<1> USE DEF IInv
<1> PICK size \in ChunkSizes :
      LET chunk == [kind |-> "data", n |-> session.n + 1, size |-> size]
          kept == Evicted(Append(session.history, chunk))
      IN /\ session' = [session EXCEPT !.n = @ + 1, !.history = kept.history,
                                       !.historyLen = kept.length]
         /\ Broadcast(<<chunk>>)
  BY DEF Feed
<1> DEFINE chunk == [kind |-> "data", n |-> session.n + 1, size |-> size]
           h == session.history
           all == Append(h, chunk)
           kept == Evicted(all)
<1>1. PICK length :
        session \in [n : 0..MaxChunks, size : Sizes, title : Titles \cup {NoTitle},
                     status : Statuses, epoch : 0..MaxEpoch, history : Seq(Frames),
                     historyLen : {length}]
  BY DEF Typed
<1>2. late' = late /\ session.n < MaxChunks
  BY DEF Feed
<1>3. session.n \in Nat /\ session.n + 1 \in 0..MaxChunks
  BY <1>1, <1>2, MirrorAssumption
<1>4. chunk \in Frames /\ chunk.kind = "data" /\ chunk.n = session.n + 1
  <2>1. size \in Nat
    BY MirrorAssumption
  <2> QED BY <1>3, <2>1 DEF Frames
<1>5. h \in Seq(Frames) /\ Len(h) \in Nat
  BY <1>1, LenProperties
<1> HIDE DEF chunk
<1>6. /\ all \in Seq(Frames) /\ all # <<>> /\ Len(all) = Len(h) + 1
      /\ \A i \in 1..Len(h) : all[i] = h[i]
      /\ all[Len(h) + 1] = chunk
  BY <1>4, <1>5, AppendProperties
<1>7. PICK first \in 1..Len(all) : \E any :
           /\ kept = [history |-> SubSeq(all, first, Len(all)), length |-> any]
           /\ any <= HistoryCap \/ first = Len(all)
  BY <1>6, EvictedKeeps
<1>8. PICK len :
           /\ kept = [history |-> SubSeq(all, first, Len(all)), length |-> len]
           /\ len <= HistoryCap \/ first = Len(all)
  BY <1>7
<1>9. kept.history = SubSeq(all, first, Len(all)) /\ kept.length = len
  <2> DEFINE fitting == SubSeq(all, first, Len(all))
  <2>1. kept = [history |-> fitting, length |-> len]
    BY <1>8
  <2> HIDE DEF fitting, kept
  <2>2. kept.history = fitting /\ kept.length = len
    BY <2>1
  <2> QED BY <2>2 DEF fitting
<1>10. /\ session' = [session EXCEPT !.n = session.n + 1, !.history = kept.history,
                                    !.historyLen = kept.length]
      /\ Broadcast(<<chunk>>)
  BY Zenon DEF chunk
<1> HIDE DEF all, kept, h
<1> DEFINE new == kept.history
<1>11. /\ new \in Seq(Frames) /\ Len(new) = Len(all) - first + 1
       /\ \A i \in 1..Len(new) : new[i] = all[first + i - 1]
  <2>1. \A i \in 1..Len(all) : all[i] \in Frames
    BY <1>6, ElementOfSeq
  <2>2. first \in Nat /\ first >= 1 /\ Len(all) \in Nat /\ first <= Len(all)
    BY <1>5, <1>6
  <2>3. \A i \in first..Len(all) : all[i] \in Frames
    BY <2>1, <2>2
  <2> QED BY <1>9, <2>2, <2>3, SubSeqProperties
<1> HIDE DEF new
<1>12. /\ session' \in [n : 0..MaxChunks, size : Sizes, title : Titles \cup {NoTitle},
                        status : Statuses, epoch : 0..MaxEpoch, history : Seq(Frames),
                        historyLen : {len}]
       /\ session'.n = session.n + 1 /\ session'.history = new /\ session'.historyLen = len
       /\ session'.size = session.size /\ session'.title = session.title
       /\ session'.status = session.status /\ session'.epoch = session.epoch
  BY <1>1, <1>3, <1>9, <1>10, <1>11 DEF new
<1>13. \A i \in 1..Len(new) :
          new[i].kind = "data" /\ new[i].n = session.n + 1 - Len(new) + i
  <2>1. \A i \in 1..Len(h) : h[i].kind = "data" /\ h[i].n = session.n - Len(h) + i
    BY DEF HistoryIsOutput, HistoryIsNewest, h
  <2>2. \A i \in 1..Len(all) :
           all[i].kind = "data" /\ all[i].n = session.n + 1 - Len(all) + i
    <3> SUFFICES ASSUME NEW i \in 1..Len(all)
                 PROVE  all[i].kind = "data" /\ all[i].n = session.n + 1 - Len(all) + i
      OBVIOUS
    <3>1. CASE i = Len(h) + 1
      <4>1. session.n + 1 - Len(all) + i = session.n + 1
        BY <1>3, <1>5, <1>6, <3>1
      <4> QED BY <1>4, <1>6, <3>1, <4>1
    <3>2. CASE i \in 1..Len(h)
      <4>1. session.n + 1 - Len(all) + i = session.n - Len(h) + i
        BY <1>3, <1>5, <1>6, <3>2
      <4> QED BY <1>6, <2>1, <3>2, <4>1
    <3> QED BY <1>5, <1>6, <3>1, <3>2
  <2> SUFFICES ASSUME NEW i \in 1..Len(new)
               PROVE  new[i].kind = "data" /\ new[i].n = session.n + 1 - Len(new) + i
    OBVIOUS
  <2> DEFINE j == first + i - 1
  <2>3. j \in 1..Len(all) /\ new[i] = all[j]
    BY <1>5, <1>6, <1>11
  <2>4. session.n + 1 - Len(new) + i = session.n + 1 - Len(all) + j
    BY <1>3, <1>5, <1>6, <1>11
  <2> QED BY <2>2, <2>3, <2>4
<1>14. HistoryIsOutput' /\ HistoryIsNewest'
  <2>1. len <= HistoryCap \/ Len(new) = 1
    BY <1>5, <1>6, <1>8, <1>11
  <2>2. HistoryIsOutput'
    BY <1>12, <1>13 DEF HistoryIsOutput
  <2>3. HistoryIsNewest'
    <3> DEFINE g == session'.history
    <3>1. g = new /\ session'.n = session.n + 1 /\ session'.historyLen = len
      BY <1>12
    <3> HIDE DEF g
    <3>2. \A i \in 1..Len(g) : g[i].n = session'.n - Len(g) + i
      <4>1. session.n \in Nat /\ Len(new) \in Nat
        BY <1>3, <1>11, LenProperties
      <4> QED BY ONLY <1>13, <3>1, <4>1
    <3>3. session'.historyLen <= HistoryCap \/ Len(g) = 1
      BY <2>1, <3>1
    <3> QED BY ONLY <3>2, <3>3 DEF HistoryIsNewest, g
  <2> QED BY <2>2, <2>3
<1>15. viewer' \in [Viewers -> Receivers] /\ Following'
  <2>1. ASSUME NEW t, Heard(t)
        PROVE  HeardNext(t) /\ LeadsTo(Shown(session, t), <<chunk>>, Shown(session', t))
    <3>1. t \in Statuses /\ HeardNext(t)
      BY <1>2, <1>12, <2>1, HeardStays DEF Heard
    <3>2. Shown(session, t) \in Views
      BY <3>1, ShownIsAView
    <3>3. Shows(Shown(session, t), chunk) = Shown(session', t)
      <4>1. Shown(session, t).n = session.n
        BY DEF Shown
      <4>2. Shows(Shown(session, t), chunk) = [Shown(session, t) EXCEPT !.n = session.n + 1]
        <5>1. chunk.n - 1 = session.n
          BY <1>3, <1>4
        <5> QED BY <1>4, <4>1, <5>1 DEF Shows
      <4> QED BY <1>12, <4>2 DEF Shown
    <3> QED BY <1>4, <3>1, <3>2, <3>3, LeadsOne
  <2>2. <<chunk>> \in Seq(Frames)
    BY <1>4
  <2> QED BY <1>10, <2>1, <2>2, BroadcastFollows
<1>16. Typed'
  BY <1>2, <1>12, <1>15 DEF Typed, GoesOn
<1> QED BY <1>14, <1>15, <1>16

\* The session's fields, one by one.
LEMMA SessionFields ==
  ASSUME Typed
  PROVE  /\ session.n \in 0..MaxChunks /\ session.n \in Nat
         /\ session.size \in Sizes /\ session.title \in Titles \cup {NoTitle}
         /\ session.status \in Statuses /\ session.epoch \in 0..MaxEpoch
         /\ session.history \in Seq(Frames)
<1>1. PICK length :
        session \in [n : 0..MaxChunks, size : Sizes, title : Titles \cup {NoTitle},
                     status : Statuses, epoch : 0..MaxEpoch, history : Seq(Frames),
                     historyLen : {length}]
  BY DEF Typed
<1>2. /\ session.n \in 0..MaxChunks /\ session.size \in Sizes
      /\ session.title \in Titles \cup {NoTitle}
      /\ session.status \in Statuses /\ session.epoch \in 0..MaxEpoch
      /\ session.history \in Seq(Frames)
  BY <1>1
<1> QED BY <1>2, MirrorAssumption

\* An operation that leaves screen and history alone.
LEMMA HistoryStays ==
  ASSUME HistoryIsOutput, HistoryIsNewest, session'.n = session.n,
         session'.history = session.history, session'.historyLen = session.historyLen
  PROVE  HistoryIsOutput' /\ HistoryIsNewest'
BY DEF HistoryIsOutput, HistoryIsNewest

\* Two frames under one lock.
LEMMA LeadsTwo ==
  ASSUME NEW a \in Views, NEW f \in Frames, NEW g \in Frames
  PROVE  /\ LeadsTo(a, <<f, g>>, Shows(Shows(a, f), g))
         /\ <<f, g>> \in Seq(Frames) /\ Shows(Shows(a, f), g) \in Views
<1>1. LeadsTo(a, <<f>>, Shows(a, f)) /\ Shows(a, f) \in Views
  BY LeadsOne
<1>2. LeadsTo(Shows(a, f), <<g>>, Shows(Shows(a, f), g)) /\ Shows(Shows(a, f), g) \in Views
  BY <1>1, LeadsOne
<1>3. <<f>> \in Seq(Frames) /\ <<g>> \in Seq(Frames) /\ <<f, g>> \in Seq(Frames)
  OBVIOUS
<1>4. Append(<<f>>, g) = <<f, g>>
  <2> DEFINE x == Append(<<f>>, g)
             y == <<f, g>>
  <2>1. Len(<<f>>) = 1 /\ <<f>>[1] = f
    OBVIOUS
  <2>2. x \in Seq(Frames) /\ Len(x) = 2 /\ x[1] = f /\ x[2] = g
    BY <1>3, <2>1, AppendProperties
  <2>3. y \in Seq(Frames) /\ Len(y) = 2 /\ y[1] = f /\ y[2] = g
    BY <1>3
  <2> HIDE DEF x, y
  <2>4. \A i \in 1..2 : x[i] = y[i]
    BY <2>2, <2>3
  <2>5. x = y
    BY <2>2, <2>3, <2>4, SeqEqual
  <2> QED BY <2>5 DEF x, y
<1>5. <<f>> \o <<g>> = <<f, g>>
  BY <1>3, <1>4, AppendIsConcat
<1> QED BY <1>1, <1>2, <1>3, <1>5, LeadsFurther

\* A title, as the session has it from now on.
LEMMA TitleKeeps ==
  ASSUME IInv, SetTitle, GoesOn
  PROVE  IInv'
<1>0. /\ Typed /\ HistoryIsOutput /\ HistoryIsNewest /\ Following
      /\ late' = late
  BY DEF IInv, SetTitle
<1> PICK title \in Titles : /\ session' = [session EXCEPT !.title = title]
                            /\ Broadcast(<<[kind |-> "title", title |-> title]>>)
  BY DEF SetTitle
<1> DEFINE f == [kind |-> "title", title |-> title]
<1>1. f \in Frames /\ f.kind = "title" /\ f.title = title /\ <<f>> \in Seq(Frames)
  BY DEF Frames
<1>2. Broadcast(<<f>>)
  OBVIOUS
<1> HIDE DEF f
<1>3. /\ session'.n = session.n /\ session'.size = session.size
      /\ session'.title = title /\ session'.status = session.status
      /\ session'.epoch = session.epoch
      /\ session'.history = session.history /\ session'.historyLen = session.historyLen
      /\ \E length :
           session' \in [n : 0..MaxChunks, size : Sizes, title : Titles \cup {NoTitle},
                         status : Statuses, epoch : 0..MaxEpoch, history : Seq(Frames),
                         historyLen : {length}]
  BY <1>0 DEF Typed
<1>4. ASSUME NEW t, Heard(t)
      PROVE  HeardNext(t) /\ LeadsTo(Shown(session, t), <<f>>, Shown(session', t))
  <2>1. t \in Statuses /\ HeardNext(t)
    BY <1>0, <1>3, <1>4, HeardStays DEF Heard
  <2>2. Shown(session, t) \in Views
    BY <1>0, <2>1, ShownIsAView
  <2>3. Shows(Shown(session, t), f) = Shown(session', t)
    BY <1>1, <1>3 DEF Shows, Shown
  <2> QED BY <1>1, <2>1, <2>2, <2>3, LeadsOne
<1>5. viewer' \in [Viewers -> Receivers] /\ Following'
  BY <1>0, <1>1, <1>2, <1>4, BroadcastFollows
<1>6. Typed'
  BY <1>0, <1>3, <1>5 DEF Typed, GoesOn
<1>7. HistoryIsOutput' /\ HistoryIsNewest'
  BY <1>0, <1>3, HistoryStays
<1> QED BY <1>0, <1>5, <1>6, <1>7 DEF IInv

\* The end of the command, or of the connection.
LEMMA StatusKeeps ==
  ASSUME IInv, NEW status \in Statuses, Leaves(status),
         handler' \in [0..MaxEpoch -> Phases]
  PROVE  IInv'
<1>0. /\ Typed /\ HistoryIsOutput /\ HistoryIsNewest /\ Following
      /\ session' = [session EXCEPT !.status = status] /\ late' = FALSE
  BY DEF IInv, Leaves
<1> DEFINE f == [kind |-> "status", status |-> status]
<1>1. f \in Frames /\ f.kind = "status" /\ f.status = status /\ <<f>> \in Seq(Frames)
  BY DEF Frames
<1>2. Broadcast(<<f>>)
  BY DEF Leaves
<1> HIDE DEF f
<1>3. /\ session'.n = session.n /\ session'.size = session.size
      /\ session'.title = session.title /\ session'.status = status
      /\ session'.history = session.history /\ session'.historyLen = session.historyLen
      /\ \E length :
           session' \in [n : 0..MaxChunks, size : Sizes, title : Titles \cup {NoTitle},
                         status : Statuses, epoch : 0..MaxEpoch, history : Seq(Frames),
                         historyLen : {length}]
  BY <1>0 DEF Typed
<1>4. ASSUME NEW t, Heard(t)
      PROVE  /\ HeardNext(status)
             /\ LeadsTo(Shown(session, t), <<f>>, Shown(session', status))
  <2>1. Shown(session, t) \in Views
    BY <1>0, <1>4, ShownIsAView DEF Heard
  <2>2. Shows(Shown(session, t), f) = Shown(session', status)
    BY <1>1, <1>3 DEF Shows, Shown
  <2> QED BY <1>1, <1>3, <2>1, <2>2, LeadsOne DEF HeardNext
<1>5. viewer' \in [Viewers -> Receivers] /\ Following'
  BY <1>0, <1>1, <1>2, <1>4, BroadcastFollows
<1>6. Typed'
  BY <1>0, <1>3, <1>5 DEF Typed
<1>7. HistoryIsOutput' /\ HistoryIsNewest'
  BY <1>0, <1>3, HistoryStays
<1> QED BY <1>0, <1>5, <1>6, <1>7 DEF IInv

\* A new size, and the dump that follows it.
LEMMA ResizeLeads ==
  ASSUME Typed, NEW size \in Sizes, session' = [session EXCEPT !.size = size],
         NEW t \in Statuses,
         NEW f, f = [kind |-> "resize", size |-> size],
         NEW g, g = [kind |-> "dump", n |-> session.n, wrap |-> size]
  PROVE  /\ f \in Frames /\ g \in Frames
         /\ Shows(Shows(Shown(session, t), f), g) = Shown(session', t)
<1>1. session.n \in Nat
  BY SessionFields
<1>2. f \in Frames /\ f.kind = "resize" /\ f.size = size
  BY DEF Frames
<1>3. g \in Frames /\ g.kind = "dump" /\ g.n = session.n /\ g.wrap = size
  BY <1>1 DEF Frames
<1>4. session'.n = session.n /\ session'.size = size /\ session'.title = session.title
  BY DEF Typed
<1> DEFINE a == Shown(session, t)
           b == Shows(a, f)
<1>5. /\ a \in Views /\ a.title = session.title /\ a.status = t
  BY ShownIsAView DEF Shown
<1>6. b \in Views
  BY <1>2, <1>5, ShowsAView
<1> HIDE DEF a
<1>7. b.size = size /\ b.title = session.title /\ b.status = t
  <2>1. b = [a EXCEPT !.size = size]
    BY <1>2 DEF Shows
  <2> QED BY <1>5, <2>1 DEF Views
<1> HIDE DEF b
<1>8. Shows(b, g) = Replaced(b, session.n, size)
  BY <1>3 DEF Shows, Replaced
<1> DEFINE c == Replaced(b, session.n, size)
           d == Shown(session', t)
<1>9. /\ c \in Views /\ c.n = session.n /\ c.wrap = size /\ c.size = size
      /\ c.title = session.title /\ c.status = t
  BY <1>1, <1>6, <1>7 DEF Views, Replaced
<1>10. /\ d.n = session.n /\ d.wrap = size /\ d.size = size
       /\ d.title = session.title /\ d.status = t
       /\ d \in Views
  <2>1. session.title \in Titles \cup {NoTitle}
    BY SessionFields
  <2> QED BY <1>1, <1>4, <2>1 DEF Shown, Views
<1> HIDE DEF c, d
<1>11. c = d
  BY <1>9, <1>10, SameView
<1> QED BY <1>2, <1>3, <1>8, <1>11 DEF a, b, c, d

\* What changes the size leaves the types and the history alone.
LEMMA ResizeTypes ==
  ASSUME Typed, HistoryIsOutput, HistoryIsNewest, NEW size \in Sizes,
         session' = [session EXCEPT !.size = size],
         handler' \in [0..MaxEpoch -> Phases], late' \in BOOLEAN,
         viewer' \in [Viewers -> Receivers]
  PROVE  Typed' /\ HistoryIsOutput' /\ HistoryIsNewest' /\ session'.status = session.status
<1>1. /\ session'.n = session.n /\ session'.status = session.status
      /\ session'.history = session.history /\ session'.historyLen = session.historyLen
      /\ \E length :
           session' \in [n : 0..MaxChunks, size : Sizes, title : Titles \cup {NoTitle},
                         status : Statuses, epoch : 0..MaxEpoch, history : Seq(Frames),
                         historyLen : {length}]
  BY DEF Typed
<1>2. Typed'
  BY <1>1 DEF Typed
<1> QED BY <1>1, <1>2, HistoryStays

\* A step of a handler that changes nothing else.
LEMMA QuietKeeps ==
  ASSUME IInv, GoesOn, UNCHANGED <<session, late, viewer>>
  PROVE  IInv'
<1>1. Typed'
  BY DEF IInv, Typed, GoesOn
<1>2. HistoryIsOutput' /\ HistoryIsNewest'
  BY HistoryStays DEF IInv
<1>3. \A t : Heard(t) => HeardNext(t)
  BY HeardStays
<1>4. \A v \in Viewers :
        LET w == viewer[v] IN
          /\ w.lagged => w.strayed
          /\ w.on /\ ~w.strayed =>
               \E t : /\ HeardNext(t)
                      /\ LeadsTo(View(w), w.backlog \o w.queue, Shown(session, t))
  BY <1>3 DEF IInv, Following
<1>5. Following'
  BY <1>4 DEF Following, Heard, HeardNext, Told, Live
<1> QED BY <1>1, <1>2, <1>5 DEF IInv

\* A resize, if the size is new.
LEMMA ResizeKeeps ==
  ASSUME IInv, Resize, GoesOn
  PROVE  IInv'
<1>0. /\ Typed /\ HistoryIsOutput /\ HistoryIsNewest /\ Following
      /\ late' = late
  BY DEF IInv, Resize
<1> PICK size \in Sizes : ResizeTo(size)
  BY DEF Resize
<1>1. CASE size = session.size
  <2>1. session' = session /\ viewer' = viewer
    BY <1>1 DEF ResizeTo
  <2> QED BY <1>0, <2>1, QuietKeeps
<1>2. CASE size # session.size
  <2> DEFINE f == [kind |-> "resize", size |-> size]
             g == [kind |-> "dump", n |-> session.n, wrap |-> size]
  <2>1. session' = [session EXCEPT !.size = size] /\ Broadcast(<<f, g>>)
    BY <1>2 DEF ResizeTo
  <2>2. \A t \in Statuses : /\ f \in Frames /\ g \in Frames
                            /\ Shows(Shows(Shown(session, t), f), g) = Shown(session', t)
    BY <1>0, <2>1, ResizeLeads
  <2> HIDE DEF f, g
  <2>3. f \in Frames /\ g \in Frames
    BY <2>2 DEF Statuses
  <2>4. session'.status = session.status /\ session'.epoch = session.epoch
    BY <1>0, <2>1 DEF Typed
  <2>5. ASSUME NEW t, Heard(t)
        PROVE  /\ HeardNext(t)
               /\ LeadsTo(Shown(session, t), <<f, g>>, Shown(session', t))
    <3>1. t \in Statuses /\ HeardNext(t)
      BY <1>0, <2>4, <2>5, HeardStays DEF Heard
    <3>2. Shown(session, t) \in Views
      BY <1>0, <3>1, ShownIsAView
    <3>3. LeadsTo(Shown(session, t), <<f, g>>, Shows(Shows(Shown(session, t), f), g))
      BY <2>3, <3>2, LeadsTwo
    <3> QED BY <2>2, <3>1, <3>3
  <2>6. <<f, g>> \in Seq(Frames)
    BY <2>3
  <2>7. viewer' \in [Viewers -> Receivers] /\ Following'
    BY <1>0, <2>1, <2>5, <2>6, BroadcastFollows
  <2>8. Typed' /\ HistoryIsOutput' /\ HistoryIsNewest'
    BY <1>0, <2>1, <2>7, ResizeTypes DEF GoesOn, Typed
  <2> QED BY <1>0, <2>7, <2>8 DEF IInv
<1> QED BY <1>1, <1>2

-----------------------------------------------------------------------------
(* Steps of a handler. *)

\* A handler at any other point goes on without a word of it.
LEMMA OthersGoOn ==
  ASSUME Typed, NEW e \in 0..MaxEpoch, NEW phase \in Phases, handler[e] # "announce",
         handler' = [handler EXCEPT ![e] = phase]
  PROVE  GoesOn
<1>1. session.epoch \in 0..MaxEpoch
  BY SessionFields
<1> QED BY <1>1 DEF GoesOn, Typed

\* A producer takes over: the session is live, and viewers will be told.
LEMMA ResumeKeeps == IInv /\ Resume => IInv'
<1> SUFFICES ASSUME IInv, Resume PROVE IInv'
  OBVIOUS
<1>0. /\ Typed /\ HistoryIsOutput /\ HistoryIsNewest /\ Following
      /\ session.epoch < MaxEpoch
      /\ session' = [session EXCEPT !.status = "live", !.epoch = session.epoch + 1]
      /\ handler' = [handler EXCEPT ![session.epoch + 1] = "announce"]
      /\ late' = FALSE /\ viewer' = viewer
  BY DEF IInv, Resume
<1>1. session.epoch + 1 \in 0..MaxEpoch
  BY <1>0, MirrorAssumption, SessionFields
<1>2. /\ session'.n = session.n /\ session'.size = session.size
      /\ session'.title = session.title /\ session'.status = "live"
      /\ session'.epoch = session.epoch + 1
      /\ session'.history = session.history /\ session'.historyLen = session.historyLen
      /\ \E length :
           session' \in [n : 0..MaxChunks, size : Sizes, title : Titles \cup {NoTitle},
                         status : Statuses, epoch : 0..MaxEpoch, history : Seq(Frames),
                         historyLen : {length}]
  <2>1. "live" \in Statuses
    BY DEF Statuses
  <2> QED BY <1>0, <1>1, <2>1 DEF Typed
<1>3. /\ handler' \in [0..MaxEpoch -> Phases]
      /\ handler'[session.epoch + 1] = "announce"
  BY <1>0, <1>1 DEF Typed, Phases
<1>4. Typed'
  BY <1>0, <1>2, <1>3 DEF Typed
<1>5. HistoryIsOutput' /\ HistoryIsNewest'
  BY <1>0, <1>2, HistoryStays
<1>6. Following'
  <2>1. \A t : Shown(session', t) = Shown(session, t)
    BY <1>2 DEF Shown
  <2>2. \A t : Heard(t) => HeardNext(t)
    BY <1>2, <1>3 DEF Heard, HeardNext
  <2>3. \A v \in Viewers :
           LET w == viewer[v] IN
             /\ w.lagged => w.strayed
             /\ w.on /\ ~w.strayed =>
                  \E t : /\ HeardNext(t)
                         /\ LeadsTo(View(w), w.backlog \o w.queue, Shown(session', t))
    BY <1>0, <2>1, <2>2 DEF Following
  <2> QED BY <1>0, <2>3 DEF Following, Heard, HeardNext, Told, Live
<1> QED BY <1>4, <1>5, <1>6 DEF IInv

\* Viewers are told, in time or too late.
LEMMA AnnounceKeeps ==
  ASSUME IInv, NEW e \in 0..MaxEpoch, Announce(e)
  PROVE  IInv'
<1>0. /\ Typed /\ HistoryIsOutput /\ HistoryIsNewest /\ Following
      /\ handler' = [handler EXCEPT ![e] = "resize"]
      /\ late' = ~Live /\ session' = session
  BY DEF IInv, Announce
<1> DEFINE f == [kind |-> "status", status |-> "live"]
<1>1. /\ f \in Frames /\ f.kind = "status" /\ f.status = "live" /\ "live" \in Statuses
      /\ <<f>> \in Seq(Frames)
  BY DEF Frames, Statuses
<1>2. Broadcast(<<f>>)
  BY DEF Announce
<1> HIDE DEF f
<1>3. HeardNext("live")
  BY <1>0, <1>1 DEF HeardNext, Live
<1>4. ASSUME NEW t, Heard(t)
      PROVE  HeardNext("live") /\ LeadsTo(Shown(session, t), <<f>>, Shown(session', "live"))
  <2>1. Shown(session, t) \in Views
    BY <1>0, <1>4, ShownIsAView DEF Heard
  <2>2. Shows(Shown(session, t), f) = Shown(session', "live")
    BY <1>0, <1>1 DEF Shows, Shown
  <2> QED BY <1>1, <1>3, <2>1, <2>2, LeadsOne
<1>5. viewer' \in [Viewers -> Receivers] /\ Following'
  BY <1>0, <1>1, <1>2, <1>4, BroadcastFollows
<1>6. Typed'
  BY <1>0, <1>5 DEF Typed, Phases
<1>7. HistoryIsOutput' /\ HistoryIsNewest'
  BY <1>0, HistoryStays
<1> QED BY <1>5, <1>6, <1>7 DEF IInv

\* The rest of a handler's steps.
LEMMA HandlerKeeps ==
  ASSUME IInv, NEW e \in 0..MaxEpoch,
         ResumeResizes(e) \/ Take(e) \/ Apply(e) \/ PumpEnds(e)
  PROVE  IInv'
<1>0. Typed
  BY DEF IInv
<1>1. CASE ResumeResizes(e)
  <2>1. GoesOn
    BY <1>0, <1>1, OthersGoOn DEF ResumeResizes, Phases
  <2> QED BY <1>1, <2>1, ResizeKeeps DEF ResumeResizes
<1>2. CASE Take(e)
  <2>1. GoesOn
    BY <1>0, <1>2, OthersGoOn DEF Take, Phases
  <2> QED BY <1>2, <2>1, QuietKeeps DEF Take
<1>3. CASE Apply(e)
  <2>1. GoesOn
    BY <1>0, <1>3, OthersGoOn DEF Apply, Phases
  <2>2. CASE Leaves("ended")
    BY <2>1, <2>2, StatusKeeps DEF GoesOn, Statuses
  <2> QED BY <1>3, <2>1, <2>2, FeedKeeps, TitleKeeps, ResizeKeeps DEF Apply
<1>4. CASE PumpEnds(e)
  <2>1. GoesOn
    BY <1>0, <1>4, OthersGoOn DEF PumpEnds, Phases
  <2>2. CASE Leaves("stale")
    BY <2>1, <2>2, StatusKeeps DEF GoesOn, Statuses
  <2> QED BY <1>4, <2>1, <2>2, QuietKeeps DEF PumpEnds
<1> QED BY <1>1, <1>2, <1>3, <1>4

-----------------------------------------------------------------------------
(* Steps of a viewer. *)

\* A step of one viewer is the others' stutter.
LEMMA ViewerKeeps ==
  ASSUME IInv, NEW v \in Viewers, NEW r \in Receivers,
         viewer' = [viewer EXCEPT ![v] = r], session' = session,
         handler' = handler, late' = late,
         r.lagged => r.strayed,
         r.on /\ ~r.strayed =>
           \E t : /\ Heard(t)
                  /\ LeadsTo(View(r), r.backlog \o r.queue, Shown(session, t))
  PROVE  IInv'
<1>0. Typed /\ HistoryIsOutput /\ HistoryIsNewest /\ Following
  BY DEF IInv
<1>1. viewer \in [Viewers -> Receivers]
  BY <1>0 DEF Typed
<1>2. /\ viewer' \in [Viewers -> Receivers] /\ viewer'[v] = r
      /\ \A u \in Viewers : u # v => viewer'[u] = viewer[u]
  BY <1>1
<1>3. Typed'
  BY <1>0, <1>2 DEF Typed
<1>4. HistoryIsOutput' /\ HistoryIsNewest'
  BY <1>0, HistoryStays
<1>5. ASSUME NEW u \in Viewers
      PROVE  LET w == viewer'[u] IN
               /\ w.lagged => w.strayed
               /\ w.on /\ ~w.strayed =>
                    \E t : /\ Heard(t)
                           /\ LeadsTo(View(w), w.backlog \o w.queue, Shown(session, t))
  <2>1. CASE u = v
    BY <1>2, <2>1
  <2>2. CASE u # v
    BY <1>0, <1>2, <2>2 DEF Following
  <2> QED BY <2>1, <2>2
<1>6. Following'
  BY <1>5 DEF Following, Heard, Told, Live
<1> QED BY <1>3, <1>4, <1>6 DEF IInv

\* Nobody is there.
LEMMA AwayIsAReceiver == Away \in Receivers
<1>1. <<>> \in Seq(Frames)
  BY EmptySeq
<1> QED BY <1>1 DEF Away, Receivers, Statuses

\* A viewer leaves.
LEMMA LeaveKeeps ==
  ASSUME IInv, NEW v \in Viewers, Leave(v)
  PROVE  IInv'
<1>1. Away \in Receivers
  BY AwayIsAReceiver
<1>2. ~Away.on /\ ~Away.lagged
  <2>1. Away.on = FALSE /\ Away.lagged = FALSE
    BY DEF Away
  <2> QED BY <2>1
<1> QED BY <1>1, <1>2, ViewerKeeps DEF Leave

\* The init frame and its payload lead to the session.
LEMMA JoinKeeps ==
  ASSUME IInv, NEW v \in Viewers, Join(v)
  PROVE  IInv'
<1>0. /\ Typed /\ HistoryIsOutput /\ HistoryIsNewest
      /\ session' = session /\ handler' = handler /\ late' = late
  BY DEF IInv, Join
<1>1. /\ session.n \in Nat /\ session.size \in Sizes
      /\ session.title \in Titles \cup {NoTitle} /\ session.status \in Statuses
      /\ session.history \in Seq(Frames)
  BY <1>0, SessionFields
<1> DEFINE reset == [kind |-> "reset"]
           payload == IF Live \/ session.history = <<>> THEN <<Dump>>
                      ELSE <<reset>> \o session.history
           r == [Away EXCEPT
                   !.on = TRUE, !.size = session.size, !.title = session.title,
                   !.status = session.status, !.wrap = session.size,
                   !.backlog = payload]
<1>2. viewer' = [viewer EXCEPT ![v] = r]
  BY DEF Join
<1>3. /\ Dump \in Frames /\ Dump.kind = "dump" /\ Dump.n = session.n
      /\ Dump.wrap = session.size
  BY <1>1 DEF Dump, Frames
<1>4. reset \in Frames /\ reset.kind = "reset"
  BY DEF Frames
<1> HIDE DEF reset
<1>5. <<Dump>> \in Seq(Frames) /\ <<reset>> \in Seq(Frames)
  BY <1>3, <1>4
<1>6. payload \in Seq(Frames)
  BY <1>1, <1>5, ConcatProperties
<1> HIDE DEF payload
<1>7. Away \in Receivers
  BY AwayIsAReceiver
<1>8. /\ r \in Receivers /\ r.on /\ r.lagged = FALSE /\ r.queue = <<>> /\ r.backlog = payload
      /\ r.n = 0 /\ r.wrap = session.size /\ r.size = session.size
      /\ r.title = session.title /\ r.status = session.status
  BY <1>1, <1>6, <1>7 DEF Away, Receivers
<1> HIDE DEF r
<1> DEFINE a == View(r)
           e == Shown(session, session.status)
<1>9. /\ a \in Views /\ a.wrap = session.size /\ a.size = session.size
      /\ a.title = session.title /\ a.status = session.status
  BY <1>8, ViewIsOne DEF View
<1>10. /\ e \in Views /\ e.n = session.n /\ e.wrap = session.size /\ e.size = session.size
       /\ e.title = session.title /\ e.status = session.status
  BY <1>0, <1>1, ShownIsAView DEF Shown
<1> HIDE DEF a, e
<1>11. LeadsTo(a, payload, e)
  <2>1. CASE Live \/ session.history = <<>>
    <3>1. payload = <<Dump>>
      BY <2>1 DEF payload
    <3>2. Shows(a, Dump) = Replaced(a, session.n, session.size)
      BY <1>3 DEF Shows, Replaced
    <3> DEFINE b == Replaced(a, session.n, session.size)
    <3>3. /\ b \in Views /\ b.n = session.n /\ b.wrap = session.size
          /\ b.size = session.size /\ b.title = session.title
          /\ b.status = session.status
      BY <1>1, <1>9 DEF Views, Replaced
    <3> HIDE DEF b
    <3>4. b = e
      BY <1>10, <3>3, SameView
    <3>5. LeadsTo(a, <<Dump>>, Shows(a, Dump))
      BY <1>3, <1>9, LeadsOne
    <3> QED BY <3>1, <3>2, <3>4, <3>5 DEF b
  <2>2. CASE ~(Live \/ session.history = <<>>)
    <3> DEFINE h == session.history
               b == Shows(a, reset)
               c == [b EXCEPT !.n = session.n]
    <3>1. payload = <<reset>> \o h
      BY <2>2 DEF payload
    <3>2. LeadsTo(a, <<reset>>, b) /\ b \in Views
      BY <1>4, <1>9, LeadsOne
    <3>3. b = Replaced(a, Blank, session.size)
      BY <1>4, <1>9 DEF Shows, Replaced
    <3> HIDE DEF b
    <3>4. /\ b.n = Blank /\ b.wrap = session.size /\ b.size = session.size
          /\ b.title = session.title /\ b.status = session.status
      BY <1>9, <3>3 DEF Views, Replaced
    <3>5. \A i \in 1..Len(h) : h[i].kind = "data" /\ h[i].n = session.n - Len(h) + i
      BY <1>0 DEF HistoryIsOutput, HistoryIsNewest
    <3>6. h \in Seq(Frames) /\ h # <<>>
      BY <1>1, <2>2
    <3> HIDE DEF h
    <3>7. LeadsTo(b, h, c)
      BY <1>1, <3>2, <3>4, <3>5, <3>6, HistoryLeads
    <3>8. /\ c \in Views /\ c.n = session.n /\ c.wrap = session.size
          /\ c.size = session.size /\ c.title = session.title
          /\ c.status = session.status
      BY <1>1, <3>2, <3>4 DEF Views
    <3> HIDE DEF c
    <3>9. c = e
      BY <1>10, <3>8, SameView
    <3>10. LeadsTo(a, <<reset>> \o h, c)
      BY <1>5, <3>2, <3>6, <3>7, LeadsFurther
    <3> QED BY <3>1, <3>9, <3>10
  <2> QED BY <2>1, <2>2
<1>12. r.backlog \o r.queue = payload
  BY <1>6, <1>8, ConcatEmptySeq
<1>13. Heard(session.status)
  BY <1>1 DEF Heard, Told
<1>14. /\ Heard(session.status)
       /\ LeadsTo(View(r), r.backlog \o r.queue, Shown(session, session.status))
  BY <1>11, <1>12, <1>13 DEF a, e
<1>15. ~r.lagged
  BY <1>8
<1> QED BY <1>0, <1>2, <1>8, <1>14, <1>15, ViewerKeeps

\* A dump after a lag.
LEMMA ResyncKeeps ==
  ASSUME IInv, NEW v \in Viewers, Resync(v)
  PROVE  IInv'
<1>0. /\ Typed /\ Following
      /\ session' = session /\ handler' = handler /\ late' = late
  BY DEF IInv, Resync
<1> DEFINE w == viewer[v]
           x == Shows(w, Dump)
           r == [x EXCEPT !.lagged = FALSE]
<1>1. viewer' = [viewer EXCEPT ![v] = r]
  BY DEF Resync
<1>2. w \in Receivers /\ w.strayed
  BY <1>0 DEF Typed, Following, Resync
<1>3. Dump \in Frames
  BY <1>0, SessionFields DEF Dump, Frames
<1> HIDE DEF w
<1>4. x \in Receivers /\ x.strayed
  BY <1>2, <1>3, ShowsView
<1> HIDE DEF x
<1>5. r \in Receivers /\ r.strayed
  BY <1>4 DEF Receivers
<1> HIDE DEF r
<1> QED BY <1>0, <1>1, <1>5, ViewerKeeps

\* A frame that was under way.
LEMMA ReceiveKeeps ==
  ASSUME IInv, NEW v \in Viewers, Receive(v)
  PROVE  IInv'
<1>0. /\ Typed /\ Following
      /\ session' = session /\ handler' = handler /\ late' = late
  BY DEF IInv, Receive
<1> DEFINE w == viewer[v]
<1>1. /\ w \in Receivers /\ w.backlog \in Seq(Frames) /\ w.queue \in Seq(Frames)
      /\ w.on
  BY <1>0 DEF Typed, Receivers, Receive
<1>2. /\ w.lagged => w.strayed
      /\ ~w.strayed =>
           \E t : /\ Heard(t)
                  /\ LeadsTo(View(w), w.backlog \o w.queue, Shown(session, t))
  BY <1>0, <1>1 DEF Following
<1> DEFINE all == w.backlog \o w.queue
<1>3. all \in Seq(Frames)
  BY <1>1, ConcatProperties
<1>4. ASSUME NEW f \in Frames, NEW r \in Receivers, all # <<>>, f = Head(all),
             View(r) = View(Shows(w, f)), r.strayed = w.strayed, r.lagged = w.lagged,
             r.backlog \o r.queue = Tail(all), viewer' = [viewer EXCEPT ![v] = r]
      PROVE  IInv'
  <2>1. View(r) = Shows(View(w), f)
    BY <1>1, <1>4, ShowsView
  <2>2. ASSUME ~r.strayed
        PROVE  \E t : /\ Heard(t)
                      /\ LeadsTo(View(r), r.backlog \o r.queue, Shown(session, t))
    <3>1. PICK t : Heard(t) /\ LeadsTo(View(w), all, Shown(session, t))
      BY <1>2, <1>4, <2>2
    <3>2. LeadsTo(Shows(View(w), Head(all)), Tail(all), Shown(session, t))
      BY <1>3, <1>4, <3>1, LeadsOn
    <3> QED BY <1>4, <2>1, <3>1, <3>2
  <2>3. r.lagged => r.strayed
    BY <1>2, <1>4
  <2> QED BY <1>0, <1>4, <2>2, <2>3, ViewerKeeps
<1>5. CASE w.backlog # <<>>
  <2> DEFINE f == Head(w.backlog)
             x == Shows(w, f)
             r == [x EXCEPT !.backlog = Tail(w.backlog)]
  <2>1. viewer' = [viewer EXCEPT ![v] = r]
    BY <1>5 DEF Receive
  <2>2. /\ f \in Frames /\ Tail(w.backlog) \in Seq(Frames)
        /\ all # <<>> /\ Head(all) = f /\ Tail(all) = Tail(w.backlog) \o w.queue
    BY <1>1, <1>5, FirstOfTwo
  <2> HIDE DEF w, all, f
  <2>3. /\ x \in Receivers /\ x.queue = w.queue /\ x.strayed = w.strayed
        /\ x.lagged = w.lagged
    BY <1>1, <2>2, ShowsView
  <2> HIDE DEF x
  <2>4. /\ r \in Receivers /\ View(r) = View(x) /\ r.strayed = w.strayed
        /\ r.lagged = w.lagged /\ r.queue = w.queue /\ r.backlog = Tail(w.backlog)
    BY <2>2, <2>3 DEF Receivers, View
  <2> HIDE DEF r
  <2> QED BY <1>4, <2>1, <2>2, <2>4 DEF x
<1>6. CASE w.backlog = <<>>
  <2> DEFINE f == Head(w.queue)
             x == Shows(w, f)
             r == [x EXCEPT !.queue = Tail(w.queue)]
  <2>1. viewer' = [viewer EXCEPT ![v] = r] /\ w.queue # <<>>
    BY <1>6 DEF Receive
  <2>2. all = w.queue
    BY <1>1, <1>6, ConcatEmptySeq
  <2>3. f \in Frames /\ Tail(w.queue) \in Seq(Frames)
    BY <1>1, <2>1, EmptySeq, HeadTailProperties
  <2> HIDE DEF w, all, f
  <2>4. /\ x \in Receivers /\ x.backlog = w.backlog /\ x.strayed = w.strayed
        /\ x.lagged = w.lagged
    BY <1>1, <2>3, ShowsView
  <2> HIDE DEF x
  <2>5. /\ r \in Receivers /\ View(r) = View(x) /\ r.strayed = w.strayed
        /\ r.lagged = w.lagged /\ r.backlog = <<>> /\ r.queue = Tail(w.queue)
    BY <1>6, <2>3, <2>4 DEF Receivers, View
  <2> HIDE DEF r
  <2>6. r.backlog \o r.queue = Tail(w.queue)
    BY <2>3, <2>5, ConcatEmptySeq
  <2> QED BY <1>4, <2>1, <2>2, <2>3, <2>5, <2>6 DEF x, f
<1> QED BY <1>5, <1>6

-----------------------------------------------------------------------------
\* Every step keeps the invariant.
LEMMA StepKeeps == IInv /\ [Next]_vars => IInv'
<1> SUFFICES ASSUME IInv, [Next]_vars PROVE IInv'
  OBVIOUS
<1>1. CASE Resume
  BY <1>1, ResumeKeeps
<1>2. ASSUME NEW e \in 0..MaxEpoch, Announce(e)
      PROVE  IInv'
  BY <1>2, AnnounceKeeps
<1>3. ASSUME NEW e \in 0..MaxEpoch,
             ResumeResizes(e) \/ Take(e) \/ Apply(e) \/ PumpEnds(e)
      PROVE  IInv'
  BY <1>3, HandlerKeeps
<1>4. ASSUME NEW v \in Viewers, Join(v) \/ Leave(v) \/ Resync(v) \/ Receive(v)
      PROVE  IInv'
  BY <1>4, JoinKeeps, LeaveKeeps, ResyncKeeps, ReceiveKeeps
<1>5. CASE UNCHANGED vars
  BY <1>5 DEF vars, IInv, Typed, HistoryIsOutput, HistoryIsNewest, Following, Heard, Told,
              Live
<1> QED BY <1>1, <1>2, <1>3, <1>4, <1>5 DEF Next, Producer

\* The invariant holds throughout.
LEMMA Invariance == Spec => []IInv
BY InitHolds, StepKeeps, PTL DEF Spec

\* A viewer that never lost a frame and has read all there is shows the session's
\* screen, size and title, through takeovers that overlap, and its status but where
\* the newest resume has yet to say Live or a resume said it too late (join, send,
\* resize and resume in session.rs, pump in produce.rs, the loop of view.rs).
THEOREM ViewersFollow == Spec => []FollowsTheSession
<1>1. IInv => FollowsTheSession
  <2> SUFFICES ASSUME IInv, NEW v \in Viewers, CaughtUp(v), ~viewer[v].strayed
               PROVE  ShowsScreen(v) /\ ShowsState(v)
    BY DEF FollowsTheSession
  <2> DEFINE w == viewer[v]
  <2>1. w.on /\ w.backlog = <<>> /\ w.queue = <<>>
    BY DEF CaughtUp
  <2>2. PICK t : Heard(t) /\ LeadsTo(View(w), w.backlog \o w.queue, Shown(session, t))
    BY <2>1 DEF IInv, Following
  <2>3. <<>> \o <<>> = <<>>
    BY EmptySeq, ConcatEmptySeq
  <2>4. Shown(session, t) = View(w)
    BY <2>1, <2>2, <2>3, LeadsNowhere
  <2>5. /\ w.n = session.n /\ w.wrap = session.size /\ w.size = session.size
        /\ w.title = session.title /\ w.status = t
    <3> HIDE DEF w
    <3>1. /\ View(w).n = w.n /\ View(w).wrap = w.wrap /\ View(w).size = w.size
          /\ View(w).title = w.title /\ View(w).status = w.status
      BY DEF View
    <3>2. /\ Shown(session, t).n = session.n /\ Shown(session, t).wrap = session.size
          /\ Shown(session, t).size = session.size
          /\ Shown(session, t).title = session.title /\ Shown(session, t).status = t
      BY DEF Shown
    <3> QED BY <2>4, <3>1, <3>2
  <2> QED BY <2>2, <2>5 DEF ShowsScreen, ShowsState, Heard
<1> QED BY <1>1, Invariance, PTL

\* What a session keeps of its output is the newest, without a gap (feed in
\* session.rs).
THEOREM HistoryStaysNewest == Spec => []HistoryIsNewest
<1>1. IInv => HistoryIsNewest
  BY DEF IInv
<1> QED BY <1>1, Invariance, PTL

=============================================================================
