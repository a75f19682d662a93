-------------------------- MODULE RecordingProofs ---------------------------
(***************************************************************************)
(* Theorems about Recorder, for any duration, longest backoff and overrun; *)
(* about Journal, for any record types, any records and any size of batch: *)
(* however writes and the close fail, and whenever the process dies, a     *)
(* journal whose writer saw no failure is the records appended, or how     *)
(* they began; and about FillLog, for any set of readers and any fills:    *)
(* the window never loses a fill that a reader has still to read, and      *)
(* every reader is handed every fill once, in order.                       *)
(***************************************************************************)
EXTENDS Recorder, Journal, FillLog, SequenceTheorems, WellFoundedInduction, TLAPS

-----------------------------------------------------------------------------
(***************************************************************************)
(* The recorders.                                                          *)
(***************************************************************************)
\* The inductive invariant: what RecordsItsTime says, with the types it rests
\* on.  Only a session moves the clock past the deadline, and what follows such
\* a session is the end.
RecorderInv ==
  /\ phase \in Phases
  /\ clock \in Nat
  /\ stop \in BOOLEAN
  /\ RecordsItsTime

\* A session that ends at time t is followed by the end of the recording, when
\* it was stopped or its time is up, and otherwise by a sleep that ends in time.
LEMMA AfterSessionKeepsInv ==
  ASSUME RecorderInv, NEW t \in clock .. (Duration + Overrun),
         NEW b \in 1 .. MaxBackoff, AfterSession(t, b)
  PROVE  RecorderInv'
<1> USE DurationAssumption, BackoffAssumption, OverrunAssumption
        DEF RecorderInv, RecordsItsTime, Phases
<1>1. t \in Nat
  OBVIOUS
<1>2. CASE stop \/ t >= Duration
  BY <1>1, <1>2 DEF AfterSession
<1>3. CASE ~(stop \/ t >= Duration)
  <2>1. phase' = "asleep" /\ clock' = t + Nap(b, t) /\ backoff' = b /\ stop' = stop
    BY <1>3 DEF AfterSession
  <2>2. Nap(b, t) \in Nat /\ Nap(b, t) <= Duration - t
    BY <1>1, <1>3 DEF Nap, Shorter
  <2> QED
    BY <1>1, <2>1, <2>2
<1> QED
  BY <1>2, <1>3

LEMMA RecorderInvInit == RecorderInit => RecorderInv
<1> SUFFICES ASSUME RecorderInit PROVE RecorderInv
  OBVIOUS
<1>1. phase \in Phases /\ stop \in BOOLEAN
  BY Zenon DEF RecorderInit, Phases
<1>2. clock \in Nat /\ backoff \in 1 .. MaxBackoff
  BY BackoffAssumption DEF RecorderInit
<1>3. phase # "asleep" /\ phase # "done"
  BY DEF RecorderInit
<1> QED
  BY <1>1, <1>2, <1>3, Zenon DEF RecorderInv, RecordsItsTime

LEMMA RecorderInvKept == RecorderInv /\ [RecorderNext]_rvars => RecorderInv'
<1> SUFFICES ASSUME RecorderInv, [RecorderNext]_rvars PROVE RecorderInv'
  OBVIOUS
<1> USE BackoffAssumption DEF RecorderInv, RecordsItsTime, Phases
<1>1. CASE StartSession
  BY <1>1 DEF StartSession
<1>2. CASE Leave
  BY <1>2 DEF Leave
<1>3. CASE StartStreaming
  BY <1>3 DEF StartStreaming
<1>4. CASE EndsCleanly
  <2>1. PICK t \in clock .. (Duration + Overrun) : AfterSession(t, 1)
    BY <1>4 DEF EndsCleanly
  <2> QED
    BY <2>1, AfterSessionKeepsInv
<1>5. CASE Fails
  <2>1. PICK t \in clock .. (Duration + Overrun) :
          AfterSession(t, Shorter(2 * backoff, MaxBackoff))
    BY <1>5 DEF Fails
  <2>2. Shorter(2 * backoff, MaxBackoff) \in 1 .. MaxBackoff
    BY DEF Shorter
  <2> QED
    BY <2>1, <2>2, AfterSessionKeepsInv
<1>6. CASE Exits
  BY <1>6 DEF Exits
<1>7. CASE Wake
  BY <1>7 DEF Wake
<1>8. CASE Interrupt
  BY <1>8 DEF Interrupt
<1>9. CASE UNCHANGED rvars
  BY <1>9 DEF rvars
<1> QED
  BY <1>1, <1>2, <1>3, <1>4, <1>5, <1>6, <1>7, <1>8, <1>9 DEF RecorderNext

\* The recorder backs off within bounds, never sleeps past its deadline, and is
\* done only when its time is up or it was interrupted
\* (tools/recorder_retry.py:28).
THEOREM RecordsItsTimeHolds == RecorderSpec => []RecordsItsTime
<1>1. RecorderInv => RecordsItsTime
  BY DEF RecorderInv
<1> QED
  BY <1>1, RecorderInvInit, RecorderInvKept, PTL DEF RecorderSpec

-----------------------------------------------------------------------------
(***************************************************************************)
(* The journal.                                                            *)
(***************************************************************************)

(***************************************************************************)
(* The first records of a sequence.                                        *)
(***************************************************************************)
Front(a, n) == SubSeq(a, 1, n)

LEMMA FrontProperties ==
  ASSUME NEW S, NEW a \in Seq(S), NEW n \in 0 .. Len(a)
  PROVE  /\ Front(a, n) \in Seq(S)
         /\ Len(Front(a, n)) = n
         /\ \A i \in 1 .. n : Front(a, n)[i] = a[i]
<1>1. 1 \in Int /\ n \in Int /\ \A i \in 1 .. n : a[i] \in S
  BY ElementOfSeq, LenProperties
<1>2. /\ SubSeq(a, 1, n) \in Seq(S)
      /\ Len(SubSeq(a, 1, n)) = IF 1 <= n THEN n - 1 + 1 ELSE 0
      /\ \A i \in 1 .. n - 1 + 1 : SubSeq(a, 1, n)[i] = a[1 + i - 1]
  BY <1>1, SubSeqProperties
<1> QED
  BY <1>2 DEF Front

LEMMA AgreesIsFront ==
  ASSUME NEW S, NEW a \in Seq(S), NEW s \in Seq(S), Len(s) <= Len(a),
         \A i \in 1 .. Len(s) : s[i] = a[i]
  PROVE  s = Front(a, Len(s))
<1>1. Len(s) \in 0 .. Len(a)
  BY LenProperties
<1> QED
  BY <1>1, FrontProperties, SeqEqual

\* A front of the first part of a sequence is one of the whole.
LEMMA FrontOfConcat ==
  ASSUME NEW S, NEW s \in Seq(S), NEW t \in Seq(S), NEW n \in 0 .. Len(s)
  PROVE  n \in 0 .. Len(s \o t) /\ Front(s, n) = Front(s \o t, n)
<1>1. /\ s \o t \in Seq(S)
      /\ Len(s \o t) = Len(s) + Len(t)
      /\ Len(s) \in Nat /\ Len(t) \in Nat
      /\ \A i \in 1 .. Len(s) : (s \o t)[i] = s[i]
  BY ConcatProperties, LenProperties
<1>2. n \in 0 .. Len(s \o t)
  BY <1>1
<1>3. /\ Front(s, n) \in Seq(S) /\ Front(s \o t, n) \in Seq(S)
      /\ Len(Front(s, n)) = n /\ Len(Front(s \o t, n)) = n
      /\ \A i \in 1 .. n : Front(s, n)[i] = s[i] /\ Front(s \o t, n)[i] = (s \o t)[i]
  BY <1>1, <1>2, FrontProperties
<1> QED
  BY <1>1, <1>2, <1>3, SeqEqual

-----------------------------------------------------------------------------
(***************************************************************************)
(* What a journal holds that had not failed: the first records, and at     *)
(* most part of the next one.                                              *)
(***************************************************************************)
Begins(w, a) ==
  \E n \in 0 .. Len(a) : w = Front(a, n) \/ (n < Len(a) /\ w = Append(Front(a, n), Part))

\* Whatever is taken of the first part of a sequence is how the whole begins.
LEMMA TakenBegins ==
  ASSUME NEW s \in Seq(Entries), NEW t \in Seq(Entries), NEW w \in Taken(s)
  PROVE  Begins(w, s \o t)
<1>1. Len(s) \in Nat /\ Len(t) \in Nat /\ Len(s \o t) = Len(s) + Len(t)
  BY LenProperties, ConcatProperties
<1>2. CASE w = s
  <2>1. s = Front(s, Len(s))
    BY <1>1, AgreesIsFront
  <2> QED
    BY <1>1, <1>2, <2>1, FrontOfConcat DEF Begins
<1>3. CASE \E n \in 0 .. Len(s) - 1 : w = SubSeq(s, 1, n) \/ w = Append(SubSeq(s, 1, n), Part)
  <2>1. PICK n \in 0 .. Len(s) - 1 : w = Front(s, n) \/ w = Append(Front(s, n), Part)
    BY <1>3 DEF Front
  <2>2. n \in 0 .. Len(s) /\ n < Len(s \o t)
    BY <1>1
  <2>3. n \in 0 .. Len(s \o t) /\ Front(s, n) = Front(s \o t, n)
    BY <2>2, FrontOfConcat
  <2> QED
    BY <2>1, <2>2, <2>3 DEF Begins
<1> QED
  BY <1>2, <1>3 DEF Taken

\* What is read of it is how the records began, whole ones only.
LEMMA BeginningReads ==
  ASSUME NEW a \in Seq(Entries), NEW w, Begins(w, a)
  PROVE  JX!IsPrefix(WholeRecords(w), a)
<1>1. PICK n \in 0 .. Len(a) : w = Front(a, n) \/ (n < Len(a) /\ w = Append(Front(a, n), Part))
  BY DEF Begins
<1>2. Len(a) \in Nat /\ n \in Nat
  BY LenProperties
<1>3. /\ Front(a, n) \in Seq(Entries) /\ Len(Front(a, n)) = n
      /\ \A i \in 1 .. n : Front(a, n)[i] = a[i] /\ a[i] \in Entries
  BY <1>2, FrontProperties, ElementOfSeq
<1>4. JX!IsPrefix(Front(a, n), a)
  <2>1. Front(Front(a, n), n) = Front(a, n)
    BY <1>3, SubSeqFull DEF Front
  <2> QED
    BY <1>2, <1>3, <2>1 DEF JX!IsPrefix, Front
<1>5. WholeRecords(w) = Front(a, n)
  <2>1. CASE w = Front(a, n)
    <3>1. {i \in DOMAIN w : w[i] = Part} = {}
      BY <1>3, <2>1, LenProperties, EntriesAssumption DEF Part
    <3> QED
      BY <2>1, <3>1, Zenon DEF WholeRecords
  <2>2. CASE w = Append(Front(a, n), Part)
    <3>1. /\ Front(a, n) \in Seq(Entries \cup {Part}) /\ Part \in Entries \cup {Part}
      BY <1>3, SeqMonotonic
    <3>2. /\ w \in Seq(Entries \cup {Part}) /\ Len(w) = n + 1
          /\ \A i \in 1 .. n : w[i] = a[i] /\ w[i] # Part
          /\ w[n + 1] = Part
      BY <1>3, <2>2, <3>1, AppendProperties, EntriesAssumption DEF Part
    <3>3. DOMAIN w = 1 .. n + 1
      BY <3>2, LenProperties
    <3>4. {i \in DOMAIN w : w[i] = Part} = {n + 1}
      BY <1>2, <3>2, <3>3
    <3>5. (CHOOSE i \in {n + 1} : \A j \in {n + 1} : i <= j) = n + 1
      BY <1>2
    <3>6. WholeRecords(w) = [i \in 1 .. Len(w) - 1 |-> IF i < n + 1 THEN w[i] ELSE Garbage]
      BY <3>4, <3>5, Zenon DEF WholeRecords
    <3>7. WholeRecords(w) = [i \in 1 .. n |-> a[i]]
      BY <1>2, <3>2, <3>6
    <3>8. Front(a, n) = [i \in 1 .. n |-> a[i]]
      BY <1>3, LenProperties
    <3> QED
      BY <3>7, <3>8
  <2> QED
    BY <1>1, <2>1, <2>2
<1> QED
  BY <1>4, <1>5

LEMMA WholeReads ==
  ASSUME NEW a \in Seq(Entries)
  PROVE  WholeRecords(a) = a
<1>1. {i \in DOMAIN a : a[i] = Part} = {}
  BY LenProperties, ElementOfSeq, EntriesAssumption DEF Part
<1> QED
  BY <1>1, Zenon DEF WholeRecords

-----------------------------------------------------------------------------
(***************************************************************************)
(* The inductive invariant.  While the journal is open nothing is in the   *)
(* file but its header; what is appended is in the C library or in the     *)
(* writer's buffer, in that order, as long as no write has failed.         *)
(***************************************************************************)
Writer ==
  [open : BOOLEAN, type : Types \cup {NoType}, buf : Seq(Entries), total : Nat, failed : BOOLEAN]

TypesInv ==
  /\ appended \in Seq(Entries)
  /\ writer \in Writer
  /\ jfile = [type |-> jfile.type, data |-> jfile.data]
  /\ jfile.type \in {NoType, writer.type}
  /\ writer.total = Len(appended)

OpenInv ==
  writer.open =>
    /\ jfile.type = writer.type /\ jfile.data = <<>> /\ ~crashed
    /\ ~writer.failed => pending \in Seq(Entries) /\ appended = pending \o writer.buf

ClosedInv ==
  ~writer.open =>
    /\ pending = <<>>
    /\ ~writer.failed =>
         /\ Begins(jfile.data, appended)
         /\ ~crashed /\ jfile.type # NoType => jfile.data = appended

JournalInv == TypesInv /\ OpenInv /\ ClosedInv

LEMMA NothingBegins ==
  ASSUME NEW a \in Seq(Entries)
  PROVE  Begins(<<>>, a)
<1>1. 0 \in 0 .. Len(a) /\ Front(a, 0) = <<>>
  BY LenProperties, SubSeqEmpty DEF Front
<1> QED
  BY <1>1 DEF Begins

LEMMA JournalInvInit == JournalInit => JournalInv
<1> SUFFICES ASSUME JournalInit PROVE JournalInv
  OBVIOUS
<1>1. <<>> \in Seq(Entries) /\ Len(<<>>) = 0
  BY EmptySeq
<1>2. writer = Closed /\ jfile = [type |-> NoType, data |-> <<>>] /\ pending = <<>> /\ appended = <<>>
  BY DEF JournalInit
<1>3. Closed \in Writer
  BY <1>1, Zenon DEF Closed, Writer
<1>4. TypesInv
  BY <1>1, <1>2, <1>3 DEF TypesInv, Closed
<1>5. ~writer.open /\ Begins(jfile.data, appended) /\ jfile.type = NoType
  BY <1>1, <1>2, NothingBegins DEF Closed
<1> QED
  BY <1>2, <1>4, <1>5, Zenon DEF JournalInv, OpenInv, ClosedInv

\* Opening throws away what the file held.
LEMMA OpenKeepsInv ==
  ASSUME JournalInv, NEW type \in Types, Open(type)
  PROVE  JournalInv'
<1>1. <<>> \in Seq(Entries) /\ Len(<<>>) = 0 /\ <<>> \o <<>> = <<>>
  BY EmptySeq, ConcatEmptySeq
<1>2. /\ writer' = [Closed EXCEPT !.open = TRUE, !.type = type]
      /\ jfile' = [type |-> type, data |-> <<>>]
      /\ appended' = <<>> /\ crashed' = FALSE /\ pending' = pending /\ pending = <<>>
  BY DEF Open, JournalInv, ClosedInv
<1>3. /\ writer' \in Writer /\ writer'.open /\ writer'.type = type
      /\ writer'.buf = <<>> /\ writer'.total = 0
  BY <1>1, <1>2 DEF Writer, Closed
<1>4. jfile'.type = type /\ jfile'.data = <<>>
  BY <1>2
<1>5. TypesInv'
  BY <1>1, <1>2, <1>3, <1>4 DEF TypesInv
<1> QED
  BY <1>1, <1>2, <1>3, <1>4, <1>5 DEF JournalInv, OpenInv, ClosedInv

\* Handing the buffer to the C library leaves the writer as it was but for its
\* buffer and its flag.
LEMMA FlushKeeps ==
  ASSUME NEW w \in Writer, NEW took
  PROVE  /\ Flushed(w, took) \in Writer
         /\ Flushed(w, took).open = w.open /\ Flushed(w, took).type = w.type
         /\ Flushed(w, took).total = w.total /\ Flushed(w, took).buf = <<>>
<1>1. <<>> \in Seq(Entries)
  BY EmptySeq
<1>2. Checked(w, took) \in BOOLEAN
  BY Zenon DEF Checked, Writer
<1> QED
  BY <1>1, <1>2 DEF Flushed, Writer

\* If it does not fail, the whole buffer has moved, and it had not failed before.
LEMMA FlushMoves ==
  ASSUME NEW w \in Writer, NEW took, ~Flushed(w, took).failed
  PROVE  ~w.failed /\ took = w.buf /\ w.buf \in Seq(Entries)
<1>1. Checked(w, took) \in BOOLEAN
  BY Zenon DEF Checked, Writer
<1>2. Flushed(w, took).failed = Checked(w, took)
  BY <1>1 DEF Flushed, Writer
<1>3. ~w.failed /\ took = w.buf
  BY <1>2, Zenon DEF Checked
<1>4. w.buf \in Seq(Entries)
  BY DEF Writer
<1> QED
  BY <1>3, <1>4, Zenon

\* A record joins the buffer, which moves when it is full.
LEMMA AppendKeepsInv ==
  ASSUME JournalInv, AppendRecord
  PROVE  JournalInv'
<1>1. PICK r \in Entries :
        LET w == [writer EXCEPT !.buf = Append(@, r), !.total = @ + 1]
        IN /\ appended' = Append(appended, r)
           /\ IF Len(w.buf) = BufferSize
              THEN \E took \in Taken(w.buf) :
                     writer' = Flushed(w, took) /\ pending' = pending \o took
              ELSE writer' = w /\ UNCHANGED pending
  BY DEF AppendRecord
<1> DEFINE w == [writer EXCEPT !.buf = Append(@, r), !.total = @ + 1]
<1>2. writer.open /\ UNCHANGED <<jfile, crashed>>
  BY DEF AppendRecord
<1>3. /\ appended \in Seq(Entries) /\ writer \in Writer /\ writer.buf \in Seq(Entries)
      /\ writer.total = Len(appended) /\ Len(appended) \in Nat
  BY LenProperties DEF JournalInv, TypesInv, Writer
<1>4. /\ appended' = Append(appended, r) /\ appended' \in Seq(Entries)
      /\ Len(appended') = Len(appended) + 1
      /\ Append(writer.buf, r) \in Seq(Entries)
  BY <1>1, <1>3, AppendProperties
<1>5. /\ w \in Writer /\ w.open /\ w.type = writer.type /\ w.failed = writer.failed
      /\ w.buf = Append(writer.buf, r) /\ w.total = Len(appended')
  <2>1. w \in Writer
    <3> DEFINE buf == Append(writer.buf, r)
               total == writer.total + 1
    <3>1. buf \in Seq(Entries) /\ total \in Nat
      BY <1>3, <1>4
    <3> HIDE DEF buf, total
    <3>2. [writer EXCEPT !.buf = buf, !.total = total] \in Writer
      BY <1>3, <3>1 DEF Writer
    <3> QED
      BY <3>2 DEF buf, total
  <2>2. w.type = writer.type /\ w.buf = Append(writer.buf, r) /\ w.total = Len(appended')
    BY <1>3, <1>4 DEF Writer
  <2>3. w.open = writer.open /\ w.failed = writer.failed
    BY <1>3, Zenon DEF Writer
  <2> HIDE DEF w
  <2> QED
    BY <1>2, <2>1, <2>2, <2>3
<1> HIDE DEF w
<1>6. ASSUME ~w.failed
      PROVE  pending \in Seq(Entries) /\ appended' = pending \o w.buf
  <2>1. pending \in Seq(Entries) /\ appended = pending \o writer.buf
    BY <1>2, <1>5, <1>6 DEF JournalInv, OpenInv
  <2>2. /\ Append(appended, r) = appended \o <<r>>
        /\ Append(writer.buf, r) = writer.buf \o <<r>>
        /\ <<r>> \in Seq(Entries)
    BY <1>3, AppendIsConcat
  <2>3. (pending \o writer.buf) \o <<r>> = pending \o (writer.buf \o <<r>>)
    <3> DEFINE b == writer.buf
               c == <<r>>
    <3>1. pending \in Seq(Entries) /\ b \in Seq(Entries) /\ c \in Seq(Entries)
      BY <1>3, <2>1, <2>2
    <3> HIDE DEF b, c
    <3>2. (pending \o b) \o c = pending \o (b \o c)
      BY <3>1, ConcatAssociative
    <3> QED
      BY <3>2 DEF b, c
  <2> QED
    BY <1>4, <1>5, <2>1, <2>2, <2>3, Zenon
<1>7. jfile' = jfile /\ crashed' = crashed
  BY <1>2
<1>8. CASE \E took \in Taken(w.buf) : writer' = Flushed(w, took) /\ pending' = pending \o took
  <2>1. PICK took : writer' = Flushed(w, took) /\ pending' = pending \o took
    BY <1>8
  <2>2. /\ writer' \in Writer /\ writer'.open = w.open /\ writer'.type = w.type
        /\ writer'.total = w.total /\ writer'.buf = <<>>
    BY <1>5, <2>1, FlushKeeps, Zenon
  <2>3. ASSUME ~writer'.failed
        PROVE  pending' \in Seq(Entries) /\ appended' = pending' \o writer'.buf
    <3>1. ~w.failed /\ took = w.buf /\ w.buf \in Seq(Entries)
      BY <1>5, <2>1, <2>3, FlushMoves, Zenon
    <3>2. pending \in Seq(Entries) /\ appended' = pending \o w.buf
      BY <1>6, <3>1
    <3>3. pending \o w.buf \in Seq(Entries)
      BY <3>1, <3>2, ConcatProperties
    <3>4. pending' = appended' /\ pending' \in Seq(Entries) /\ pending' \o <<>> = pending'
      BY <2>1, <3>1, <3>2, <3>3, ConcatEmptySeq
    <3> QED
      BY <2>2, <3>4
  <2> QED
    BY <1>2, <1>4, <1>5, <1>7, <2>2, <2>3 DEF JournalInv, TypesInv, OpenInv, ClosedInv
<1>9. CASE writer' = w /\ pending' = pending
  <2>1. ~writer'.failed => pending' \in Seq(Entries) /\ appended' = pending' \o writer'.buf
    BY <1>6, <1>9, Zenon
  <2>2. writer' \in Writer /\ writer'.open /\ writer'.type = writer.type /\ writer'.total = Len(appended')
    BY <1>5, <1>9, Zenon
  <2>3. TypesInv'
    BY <1>4, <1>5, <1>7, <2>2 DEF JournalInv, TypesInv
  <2>4. OpenInv'
    <3>1. jfile.type = writer.type /\ jfile.data = <<>> /\ ~crashed
      BY <1>2, Zenon DEF JournalInv, OpenInv
    <3>2. jfile'.type = writer'.type /\ jfile'.data = <<>> /\ ~crashed'
      BY <1>7, <2>2, <3>1
    <3> QED
      BY <2>1, <3>2, Zenon DEF OpenInv
  <2> QED
    BY <2>2, <2>3, <2>4, Zenon DEF JournalInv, ClosedInv
<1> QED
  BY <1>1, <1>8, <1>9 DEF w

LEMMA FlushKeepsInv ==
  ASSUME JournalInv, FlushRecords
  PROVE  JournalInv'
<1>1. PICK took : writer' = Flushed(writer, took) /\ pending' = pending \o took
  BY DEF FlushRecords
<1>2. writer.open /\ jfile' = jfile /\ appended' = appended /\ crashed' = crashed
  BY DEF FlushRecords
<1>3. /\ writer \in Writer
      /\ (~writer.failed => pending \in Seq(Entries) /\ appended = pending \o writer.buf)
  BY <1>2 DEF JournalInv, TypesInv, OpenInv
<1> DEFINE w == Flushed(writer, took)
           data == pending \o took
<1>4. /\ w \in Writer /\ w.open /\ w.type = writer.type
      /\ w.total = writer.total /\ w.buf = <<>>
      /\ ~w.failed => data \in Seq(Entries) /\ data = appended
  <2>1. /\ w \in Writer /\ w.open = writer.open /\ w.type = writer.type
        /\ w.total = writer.total /\ w.buf = <<>>
    BY <1>3, FlushKeeps, Zenon
  <2>2. ASSUME ~w.failed
        PROVE  data \in Seq(Entries) /\ data = appended
    <3>1. ~writer.failed /\ took = writer.buf /\ writer.buf \in Seq(Entries)
      BY <1>3, <2>2, FlushMoves, Zenon
    <3> QED
      BY <1>3, <3>1, ConcatProperties
  <2> QED
    BY <1>2, <2>1, <2>2, Zenon
<1>5. ~w.failed => data \in Seq(Entries) /\ appended = data \o w.buf
  BY <1>4, ConcatEmptySeq
<1> HIDE DEF w, data
<1>6. writer' = w /\ pending' = data
  BY <1>1 DEF w, data
<1>7. TypesInv'
  BY <1>2, <1>4, <1>6 DEF JournalInv, TypesInv
<1>8. OpenInv'
  BY <1>2, <1>4, <1>5, <1>6, Zenon DEF JournalInv, OpenInv
<1> QED
  BY <1>2, <1>4, <1>6, <1>7, <1>8, Zenon DEF JournalInv, ClosedInv

\* A close that finds nothing wrong has written all that was appended.
LEMMA CloseKeepsInv ==
  ASSUME JournalInv, Close
  PROVE  JournalInv'
<1>1. PICK took \in Taken(writer.buf) :
        LET w == Flushed(writer, took)
            data == pending \o took
        IN \E written \in Taken(data) :
             /\ jfile' = [jfile EXCEPT !.data = @ \o written]
             /\ writer' = [w EXCEPT !.open = FALSE, !.failed = CloseChecked(w, written = data)]
  BY DEF Close
<1> DEFINE w == Flushed(writer, took)
           data == pending \o took
<1>2. PICK written :
        /\ jfile' = [jfile EXCEPT !.data = @ \o written]
        /\ writer' = [w EXCEPT !.open = FALSE, !.failed = CloseChecked(w, written = data)]
  BY <1>1
<1>3. writer.open /\ pending' = <<>> /\ appended' = appended /\ crashed' = crashed
  BY DEF Close
<1>4. /\ writer \in Writer /\ appended \in Seq(Entries) /\ writer.total = Len(appended)
      /\ jfile.type = writer.type /\ jfile.data = <<>> /\ jfile = [type |-> jfile.type, data |-> jfile.data]
      /\ (~writer.failed => pending \in Seq(Entries) /\ appended = pending \o writer.buf)
  BY <1>3 DEF JournalInv, TypesInv, OpenInv
<1>5. /\ w \in Writer /\ w.type = writer.type /\ w.total = writer.total
      /\ ~w.failed => data \in Seq(Entries) /\ data = appended
  <2>1. w \in Writer /\ w.type = writer.type /\ w.total = writer.total
    BY <1>4, FlushKeeps, Zenon
  <2>2. ASSUME ~w.failed
        PROVE  data \in Seq(Entries) /\ data = appended
    <3>1. ~writer.failed /\ took = writer.buf /\ writer.buf \in Seq(Entries)
      BY <1>4, <2>2, FlushMoves, Zenon
    <3> QED
      BY <1>4, <3>1, ConcatProperties
  <2> QED
    BY <2>1, <2>2, Zenon
<1> HIDE DEF w, data
<1>6. CloseChecked(w, written = data) \in BOOLEAN
  BY <1>5, Zenon DEF CloseChecked, Writer
<1>7. /\ writer' \in Writer /\ ~writer'.open /\ writer'.type = w.type /\ writer'.total = w.total
      /\ writer'.failed = CloseChecked(w, written = data)
  BY <1>2, <1>5, <1>6 DEF Writer
<1>8. jfile' = [type |-> jfile'.type, data |-> jfile'.data] /\ jfile'.type = jfile.type
      /\ jfile'.data = <<>> \o written
  BY <1>2, <1>4
<1>9. ASSUME ~writer'.failed
      PROVE  jfile'.data = appended /\ Begins(jfile'.data, appended)
  <2>1. ~w.failed /\ written = data
    BY <1>7, <1>9 DEF CloseChecked
  <2>2. jfile'.data = appended
    BY <1>4, <1>5, <1>8, <2>1, ConcatEmptySeq
  <2>3. Len(appended) \in 0 .. Len(appended) /\ appended = Front(appended, Len(appended))
    BY <1>4, AgreesIsFront, LenProperties
  <2> QED
    BY <2>2, <2>3 DEF Begins
<1> QED
  BY <1>3, <1>4, <1>5, <1>7, <1>8, <1>9 DEF JournalInv, TypesInv, OpenInv, ClosedInv

\* What a crash leaves is how the records began, or nothing at all.
LEMMA CrashKeepsInv ==
  ASSUME JournalInv, JournalCrash
  PROVE  JournalInv'
<1>1. /\ writer.open /\ writer' = [writer EXCEPT !.open = FALSE] /\ pending' = <<>>
      /\ crashed' = TRUE /\ appended' = appended
  BY DEF JournalCrash
<1>2. /\ writer \in Writer /\ appended \in Seq(Entries) /\ writer.total = Len(appended)
      /\ jfile.type = writer.type /\ jfile.data = <<>> /\ jfile = [type |-> jfile.type, data |-> jfile.data]
      /\ (~writer.failed => pending \in Seq(Entries) /\ appended = pending \o writer.buf)
      /\ writer.buf \in Seq(Entries)
  BY <1>1 DEF JournalInv, TypesInv, OpenInv, Writer
<1>3. /\ writer' \in Writer /\ ~writer'.open /\ writer'.type = writer.type
      /\ writer'.total = writer.total /\ writer'.failed = writer.failed
  BY <1>1, <1>2 DEF Writer
<1>4. CASE jfile' = [type |-> NoType, data |-> <<>>]
  <2>1. Begins(jfile'.data, appended) /\ jfile'.type = NoType
    BY <1>2, <1>4, NothingBegins
  <2> QED
    BY <1>1, <1>2, <1>3, <1>4, <2>1 DEF JournalInv, TypesInv, OpenInv, ClosedInv
<1>5. CASE \E written \in Taken(pending) : jfile' = [jfile EXCEPT !.data = @ \o written]
  <2>1. PICK written \in Taken(pending) : jfile' = [jfile EXCEPT !.data = @ \o written]
    BY <1>5
  <2>2. jfile' = [type |-> jfile'.type, data |-> jfile'.data] /\ jfile'.type = jfile.type
        /\ jfile'.data = <<>> \o written
    BY <1>2, <2>1
  <2>3. ASSUME ~writer.failed
        PROVE  Begins(jfile'.data, appended)
    <3>1. Begins(written, appended)
      BY <1>2, <2>1, <2>3, TakenBegins
    <3>2. <<>> \o written = written
      <4>1. PICK n \in 0 .. Len(appended) :
              written = Front(appended, n) \/ (n < Len(appended) /\ written = Append(Front(appended, n), Part))
        BY <3>1 DEF Begins
      <4>2. Front(appended, n) \in Seq(Entries \cup {Part})
        BY <1>2, FrontProperties, SeqMonotonic
      <4>3. written \in Seq(Entries \cup {Part})
        BY <4>1, <4>2, AppendProperties
      <4> QED
        BY <4>3, ConcatEmptySeq
    <3> QED
      BY <2>2, <3>1, <3>2
  <2> QED
    BY <1>1, <1>2, <1>3, <2>2, <2>3 DEF JournalInv, TypesInv, OpenInv, ClosedInv
<1> QED
  BY <1>4, <1>5 DEF JournalCrash

-----------------------------------------------------------------------------
LEMMA JournalInvKept == JournalInv /\ [JournalNext]_jvars => JournalInv'
<1> SUFFICES ASSUME JournalInv, [JournalNext]_jvars PROVE JournalInv'
  OBVIOUS
<1>1. CASE UNCHANGED jvars
  BY <1>1 DEF jvars, JournalInv, TypesInv, OpenInv, ClosedInv
<1> QED
  BY <1>1, OpenKeepsInv, AppendKeepsInv, FlushKeepsInv, CloseKeepsInv, CrashKeepsInv
  DEF JournalNext

LEMMA JournalInvSuffices == JournalInv => JournalTellsTheTruth
<1> SUFFICES ASSUME JournalInv PROVE JournalTellsTheTruth
  OBVIOUS
<1>1. appended \in Seq(Entries) /\ jfile.type \in {NoType, writer.type} /\ writer.total = Len(appended)
  BY DEF JournalInv, TypesInv
<1>2. ASSUME jfile.type # NoType, ~writer.open, ~writer.failed, ~crashed
      PROVE  ReadAll(writer.type) = appended /\ Len(appended) = writer.total
  <2>1. jfile.data = appended /\ jfile.type = writer.type
    BY <1>1, <1>2 DEF JournalInv, ClosedInv
  <2> QED
    BY <1>1, <2>1, WholeReads DEF ReadAll
<1>3. ASSUME ~writer.failed, NEW type \in Types, ReadAll(type) # Throws
      PROVE  type = writer.type /\ JX!IsPrefix(ReadAll(type), appended)
  <2>1. jfile.type = type /\ type # NoType
    BY <1>3, EntriesAssumption DEF ReadAll, NoType
  <2>2. Begins(jfile.data, appended)
    BY <1>1, <1>3, NothingBegins DEF JournalInv, OpenInv, ClosedInv
  <2> QED
    BY <1>1, <2>1, <2>2, BeginningReads DEF ReadAll
<1> QED
  BY <1>2, <1>3 DEF JournalTellsTheTruth

\* A journal whose writer saw no failure reads back as all that was appended,
\* and one that a crash cut short as how that began
\* (include/lob/measure/journal.hpp:94).
THEOREM JournalTellsTheTruthHolds == JournalSpec => []JournalTellsTheTruth
  BY JournalInvInit, JournalInvKept, JournalInvSuffices, PTL DEF JournalSpec

-----------------------------------------------------------------------------
(***************************************************************************)
(* The fill log.                                                           *)
(***************************************************************************)

\* A nonempty set of naturals has a least element.
LEMMA LeastExists ==
  ASSUME NEW S \in SUBSET Nat, S # {}
  PROVE  \E n \in S : \A m \in S : n <= m
<1>1. PICK n \in S : \A m \in S : ~(<<m, n>> \in OpToRel(<, Nat))
  BY WFMin, NatLessThanWellFounded
<1> SUFFICES ASSUME NEW m \in S PROVE n <= m
  BY <1>1
<1>2. <<m, n>> \notin OpToRel(<, Nat)
  BY <1>1
<1>3. ~(m < n)
  BY <1>2 DEF OpToRel
<1> QED
  BY <1>3

\* A sequence that agrees with t from position b + 1 to its end is that part
\* of t; one that agrees with it from the start is a prefix.
LEMMA PartOfSequence ==
  ASSUME NEW S, NEW t \in Seq(S), NEW s \in Seq(S), NEW b \in Nat, NEW e \in Nat,
         e <= Len(t), b <= e, Len(s) = e - b, \A j \in 1 .. Len(s) : s[j] = t[b + j]
  PROVE  s = SubSeq(t, b + 1, e)
<1>1. \A j \in b + 1 .. e : t[j] \in S
  BY ElementOfSeq
<1>2. /\ SubSeq(t, b + 1, e) \in Seq(S)
      /\ Len(SubSeq(t, b + 1, e)) = e - b
      /\ \A j \in 1 .. e - b : SubSeq(t, b + 1, e)[j] = t[b + j]
  BY <1>1, SubSeqProperties
<1> QED
  BY <1>2, SeqEqual

-----------------------------------------------------------------------------
\* The inductive invariant, position by position.  The window agrees with the
\* tape from its base on, and reaches its end; neither the base nor what a
\* reader has noted is further than what it has read; and a reader holds the
\* tape up to its mark.
WindowAgrees ==
  /\ FillsEnd(log) = Len(tape)
  /\ \A j \in 1 .. Len(log.fills) : log.fills[j] = tape[log.base + j]

MarksAreOrdered ==
  \A r \in Readers : log.base <= mark[r] /\ noted[r] <= mark[r] /\ mark[r] <= Len(tape)

GotAgrees ==
  \A r \in Readers : Len(got[r]) = mark[r] /\ \A j \in 1 .. mark[r] : got[r][j] = tape[j]

Inv == TypeOK /\ WindowAgrees /\ MarksAreOrdered /\ GotAgrees

\* At the start nothing has been pushed.
LEMMA InvInit == Init => Inv
<1> SUFFICES ASSUME Init PROVE Inv
  OBVIOUS
<1>1. Len(<<>>) = 0 /\ <<>> \in Seq(Fills)
  BY EmptySeq
<1>2. TypeOK
  BY <1>1 DEF Init, TypeOK, EmptyLog
<1>3. WindowAgrees
  BY <1>1 DEF Init, WindowAgrees, FillsEnd, EmptyLog
<1>4. MarksAreOrdered /\ GotAgrees
  BY <1>1 DEF Init, MarksAreOrdered, GotAgrees, EmptyLog
<1> QED
  BY <1>2, <1>3, <1>4 DEF Inv

\* A new fill: the window and the tape both grow by it.
LEMMA PushKeepsInv ==
  ASSUME Inv, NEW f \in Fills, Push(f)
  PROVE  Inv'
<1> USE DEF Inv, Push, PushFill, FillsEnd
<1>0. /\ Append(log.fills, f) \in Seq(Fills) /\ Append(tape, f) \in Seq(Fills)
      /\ log' = [base |-> log.base, fills |-> Append(log.fills, f)]
  BY AppendProperties DEF TypeOK
<1>1. TypeOK'
  BY <1>0 DEF TypeOK
<1>2. /\ Len(log'.fills) = Len(log.fills) + 1 /\ log'.base = log.base
      /\ Len(tape') = Len(tape) + 1
      /\ \A j \in 1 .. Len(tape) : tape'[j] = tape[j]
  BY DEF TypeOK
<1>3. WindowAgrees'
  BY <1>1, <1>2 DEF TypeOK, WindowAgrees
<1>4. MarksAreOrdered'
  BY <1>2 DEF TypeOK, MarksAreOrdered
<1>5. GotAgrees'
  BY <1>2 DEF TypeOK, GotAgrees, MarksAreOrdered
<1> QED
  BY <1>1, <1>3, <1>4, <1>5

\* A read: the index is inside the window, so what is read is on the tape.
LEMMA ReadKeepsInv ==
  ASSUME Inv, NEW r \in Readers, Read(r)
  PROVE  Inv'
<1> USE DEF Inv, Read, FillsEnd
<1>1. mark[r] - log.base + 1 \in 1 .. Len(log.fills)
  BY DEF TypeOK, MarksAreOrdered
<1>2. FillAt(log, mark[r]) \in Fills /\ FillAt(log, mark[r]) = tape[mark[r] + 1]
  <2> DEFINE k == mark[r] - log.base + 1
  <2>1. log.fills \in Seq(Fills) /\ log.base \in Nat /\ mark[r] \in Nat
    BY DEF TypeOK
  <2>2. log.fills[k] \in Fills
    BY <1>1, <2>1, ElementOfSeq
  <2>3. log.fills[k] = tape[log.base + k]
    BY <1>1 DEF WindowAgrees
  <2>4. log.base + k = mark[r] + 1
    BY <2>1
  <2> QED
    BY <2>2, <2>3, <2>4 DEF FillAt
<1>3. TypeOK'
  BY <1>2 DEF TypeOK
<1>4. MarksAreOrdered'
  <2> SUFFICES ASSUME NEW q \in Readers
               PROVE  log'.base <= mark'[q] /\ noted'[q] <= mark'[q] /\ mark'[q] <= Len(tape')
    BY DEF MarksAreOrdered
  <2>1. log' = log /\ noted' = noted /\ tape' = tape
    OBVIOUS
  <2>2. log.base <= mark[q] /\ noted[q] <= mark[q] /\ mark[q] <= Len(tape)
    BY DEF MarksAreOrdered
  <2>3. mark[q] \in Nat /\ noted[q] \in Nat /\ log.base \in Nat
    BY DEF TypeOK
  <2>4. CASE q = r
    <3>1. mark'[q] = mark[q] + 1
      BY <2>4 DEF TypeOK
    <3>2. mark[q] < Len(tape) /\ Len(tape) \in Nat
      BY <2>4, LenProperties DEF TypeOK, WindowAgrees
    <3> HIDE DEF Inv, Read
    <3> QED
      BY <2>1, <2>2, <2>3, <3>1, <3>2
  <2>5. CASE q # r
    <3>1. mark'[q] = mark[q]
      BY <2>5 DEF TypeOK
    <3> QED
      BY <2>1, <2>2, <3>1
  <2> QED
    BY <2>4, <2>5
<1>5. GotAgrees'
  <2> SUFFICES ASSUME NEW q \in Readers
               PROVE  /\ Len(got'[q]) = mark'[q]
                      /\ \A j \in 1 .. mark'[q] : got'[q][j] = tape'[j]
    BY DEF GotAgrees
  <2>1. CASE q = r
    <3>1. got[r] \in Seq(Fills) /\ got'[r] = Append(got[r], FillAt(log, mark[r]))
      BY DEF TypeOK
    <3>2. Len(got[r]) = mark[r] /\ mark'[r] = mark[r] + 1 /\ mark[r] \in Nat
      BY DEF TypeOK, GotAgrees
    <3>3. \A j \in 1 .. mark[r] : got[r][j] = tape[j]
      BY DEF GotAgrees
    <3> QED
      BY <2>1, <1>2, <3>1, <3>2, <3>3, AppendProperties
  <2>2. CASE q # r
    BY <2>2 DEF GotAgrees, TypeOK
  <2> QED
    BY <2>1, <2>2
<1>6. WindowAgrees'
  BY DEF WindowAgrees
<1> QED
  BY <1>3, <1>4, <1>5, <1>6

\* A reader notes how far it has read.
LEMMA NoteKeepsInv ==
  ASSUME Inv, NEW r \in Readers, NoteRead(r)
  PROVE  Inv'
<1> USE DEF Inv, NoteRead
<1>1. TypeOK'
  BY DEF TypeOK
<1>2. MarksAreOrdered'
  BY DEF TypeOK, MarksAreOrdered
<1>3. WindowAgrees' /\ GotAgrees'
  BY DEF WindowAgrees, GotAgrees, FillsEnd
<1> QED
  BY <1>1, <1>2, <1>3

\* What every reader has noted: the least of the notes, which exists.
LEMMA LeastNotedIsNoted ==
  ASSUME TypeOK
  PROVE  /\ LeastNoted \in Nat
         /\ \E r \in Readers : LeastNoted = noted[r]
         /\ \A r \in Readers : LeastNoted <= noted[r]
<1> DEFINE S == {noted[r] : r \in Readers}
<1>1. S \in SUBSET Nat /\ S # {}
  BY ReadersAssumption DEF TypeOK
<1>2. \E n \in S : \A m \in S : n <= m
  BY <1>1, LeastExists
<1>3. \E n \in S : \A r \in Readers : n <= noted[r]
  BY <1>2
<1>4. LeastNoted \in S /\ \A r \in Readers : LeastNoted <= noted[r]
  BY <1>3 DEF LeastNoted
<1> QED
  BY <1>1, <1>4

\* A trim moves the base up to what every reader has noted, no further.
LEMMA TrimKeepsInv ==
  ASSUME Inv, Trim
  PROVE  Inv'
<1> DEFINE i == LeastNoted
           n == i - log.base
<1> USE DEF Inv, Trim
<1>1. /\ i \in Nat /\ \A r \in Readers : i <= noted[r]
      /\ \E r \in Readers : i = noted[r]
  BY LeastNotedIsNoted
<1>2. log.base \in Nat /\ log.fills \in Seq(Fills) /\ Len(log.fills) \in Nat
      /\ log.base + Len(log.fills) = Len(tape)
  BY LenProperties DEF TypeOK, WindowAgrees, FillsEnd
<1>3. i <= Len(tape) /\ i - log.base <= Len(log.fills)
  BY <1>1, <1>2 DEF MarksAreOrdered, TypeOK
<1>4. CASE i <= log.base
  <2>1. log' = log
    BY <1>4 DEF ConsumeThrough
  <2> QED
    BY <2>1 DEF TypeOK, WindowAgrees, MarksAreOrdered, GotAgrees, FillsEnd
<1>5. CASE ~(i <= log.base)
  <2>0. n \in 1 .. Len(log.fills)
    BY <1>1, <1>2, <1>3, <1>5
  <2>1. log' = [base |-> log.base + n, fills |-> SubSeq(log.fills, n + 1, Len(log.fills))]
    BY <1>1, <1>2, <1>5, <2>0 DEF ConsumeThrough, DropCount
  <2>2. \A j \in n + 1 .. Len(log.fills) : log.fills[j] \in Fills
    BY <1>2, <2>0, ElementOfSeq
  <2>3. /\ log'.fills \in Seq(Fills)
        /\ Len(log'.fills) = Len(log.fills) - n
        /\ \A j \in 1 .. Len(log.fills) - n : log'.fills[j] = log.fills[n + j]
    <3>1. n + 1 \in Int /\ Len(log.fills) \in Int /\ n + 1 <= Len(log.fills) + 1
      BY <1>2, <2>0
    <3>2. /\ SubSeq(log.fills, n + 1, Len(log.fills)) \in Seq(Fills)
          /\ Len(SubSeq(log.fills, n + 1, Len(log.fills))) =
               IF n + 1 <= Len(log.fills) THEN Len(log.fills) - (n + 1) + 1 ELSE 0
          /\ \A j \in 1 .. Len(log.fills) - (n + 1) + 1 :
               SubSeq(log.fills, n + 1, Len(log.fills))[j] = log.fills[(n + 1) + j - 1]
      BY <2>2, <3>1, SubSeqProperties, SMTT(30)
    <3>3. ASSUME NEW k \in Nat, k = n
          PROVE  /\ Len(SubSeq(log.fills, k + 1, Len(log.fills))) = Len(log.fills) - k
                 /\ \A j \in 1 .. Len(log.fills) - k :
                      SubSeq(log.fills, k + 1, Len(log.fills))[j] = log.fills[k + j]
      <4>1. k \in 1 .. Len(log.fills) /\ Len(log.fills) \in Nat
        BY <3>3, <2>0, <1>2
      <4>2. \A j \in k + 1 .. Len(log.fills) : log.fills[j] \in Fills
        BY <2>2, <3>3
      <4> QED
        BY <4>1, <4>2, SubSeqProperties
    <3> HIDE DEF n
    <3> QED
      BY <2>0, <2>1, <3>2, <3>3
  <2>4. TypeOK'
    <3>1. log' \in [base : Nat, fills : Seq(Fills)]
      BY <1>2, <2>0, <2>1, <2>3
    <3> QED
      BY <3>1 DEF TypeOK
  <2>5. WindowAgrees'
    <3>1. log'.base = log.base + n
      BY <2>1
    <3>2. FillsEnd(log') = Len(tape')
      BY <1>1, <1>2, <2>3, <3>1 DEF FillsEnd
    <3>3. ASSUME NEW j \in 1 .. Len(log'.fills) PROVE log'.fills[j] = tape'[log'.base + j]
      <4>1. n \in Nat /\ j \in 1 .. Len(log.fills) - n /\ n + j \in 1 .. Len(log.fills)
        BY <1>2, <2>0, <2>3
      <4>2. log.fills[n + j] = tape[log.base + (n + j)]
        BY <4>1 DEF WindowAgrees
      <4>3. log.base + (n + j) = log'.base + j
        BY <1>2, <3>1, <4>1
      <4> QED
        BY <2>3, <4>1, <4>2, <4>3
    <3> QED
      BY <3>2, <3>3 DEF WindowAgrees
  <2>6. MarksAreOrdered'
    <3> SUFFICES ASSUME NEW q \in Readers
                 PROVE  log'.base <= mark'[q] /\ noted'[q] <= mark'[q] /\ mark'[q] <= Len(tape')
      BY DEF MarksAreOrdered
    <3>1. log'.base = i /\ mark' = mark /\ noted' = noted /\ tape' = tape
      BY <1>1, <1>2, <2>1
    <3>2. noted[q] <= mark[q] /\ mark[q] <= Len(tape) /\ mark[q] \in Nat /\ noted[q] \in Nat
      BY DEF MarksAreOrdered, TypeOK
    <3>3. i <= noted[q] /\ i \in Nat
      BY <1>1
    <3> HIDE DEF Inv, Trim, i
    <3> QED
      BY <3>1, <3>2, <3>3
  <2>7. GotAgrees'
    BY DEF GotAgrees
  <2> QED
    BY <2>4, <2>5, <2>6, <2>7
<1> QED
  BY <1>4, <1>5

\* Clearing moves the base to the end: nothing a reader has to read is there,
\* since Clear waits for every reader.
LEMMA ClearKeepsInv ==
  ASSUME Inv, Clear
  PROVE  Inv'
<1> USE DEF Inv, Clear, ClearFills, FillsEnd
<1>1. log' = [base |-> Len(tape), fills |-> <<>>] /\ Len(tape) \in Nat
  BY LenProperties DEF TypeOK, WindowAgrees
<1>2. <<>> \in Seq(Fills) /\ Len(<<>>) = 0
  BY EmptySeq
<1>3. TypeOK'
  BY <1>1, <1>2 DEF TypeOK
<1>4. WindowAgrees'
  BY <1>1, <1>2 DEF WindowAgrees
<1>5. GotAgrees'
  BY DEF GotAgrees
<1>6. MarksAreOrdered'
  BY <1>1 DEF MarksAreOrdered, WindowAgrees, TypeOK
<1> QED
  BY <1>3, <1>4, <1>5, <1>6

\* The log and every reader agree with the tape in every reachable state.
THEOREM FillLogInv == Spec => []Inv
<1>1. Inv /\ [Next]_vars => Inv'
  <2> SUFFICES ASSUME Inv, [Next]_vars PROVE Inv'
    OBVIOUS
  <2>1. ASSUME NEW f \in Fills, Push(f) PROVE Inv'
    BY <2>1, PushKeepsInv
  <2>2. ASSUME NEW r \in Readers, Read(r) PROVE Inv'
    BY <2>2, ReadKeepsInv
  <2>3. ASSUME NEW r \in Readers, NoteRead(r) PROVE Inv'
    BY <2>3, NoteKeepsInv
  <2>4. CASE Trim
    BY <2>4, TrimKeepsInv
  <2>5. CASE Clear
    BY <2>5, ClearKeepsInv
  <2>6. CASE UNCHANGED vars
    BY <2>6 DEF vars, Inv, TypeOK, WindowAgrees, MarksAreOrdered, GotAgrees, FillsEnd
  <2> QED
    BY <2>1, <2>2, <2>3, <2>4, <2>5, <2>6 DEF Next
<1> QED
  BY <1>1, InvInit, PTL DEF Spec

-----------------------------------------------------------------------------
\* Nothing a reader has still to read is dropped: fill_at is always asked for
\* an index inside the window, however reads and trims interleave.
THEOREM NothingUnreadIsDroppedHolds == Spec => []NothingUnreadIsDropped
<1>1. Inv => NothingUnreadIsDropped
  BY DEF Inv, WindowAgrees, MarksAreOrdered, NothingUnreadIsDropped, FillsBegin
<1> QED
  BY <1>1, FillLogInv, PTL

\* Every reader has been handed the run's fills up to its mark: none twice,
\* none skipped, none out of order.
THEOREM EveryFillIsReadOnceHolds == Spec => []EveryFillIsReadOnce
<1>1. Inv => EveryFillIsReadOnce
  <2> SUFFICES ASSUME Inv, NEW r \in Readers PROVE got[r] = SubSeq(tape, 1, mark[r])
    BY DEF EveryFillIsReadOnce
  <2>1. /\ tape \in Seq(Fills) /\ got[r] \in Seq(Fills) /\ mark[r] \in Nat
        /\ mark[r] <= Len(tape) /\ Len(got[r]) = mark[r]
        /\ \A j \in 1 .. Len(got[r]) : got[r][j] = tape[0 + j]
    BY DEF Inv, TypeOK, MarksAreOrdered, GotAgrees
  <2> QED
    BY <2>1, PartOfSequence
<1> QED
  BY <1>1, FillLogInv, PTL

\* The window is the tail of the run's fills.
THEOREM WindowIsATailHolds == Spec => []WindowIsATail
<1>1. Inv => WindowIsATail
  <2> SUFFICES ASSUME Inv PROVE WindowIsATail
    OBVIOUS
  <2>1. /\ tape \in Seq(Fills) /\ log.fills \in Seq(Fills) /\ log.base \in Nat
        /\ Len(tape) \in Nat /\ Len(log.fills) \in Nat
        /\ log.base + Len(log.fills) = Len(tape)
        /\ \A j \in 1 .. Len(log.fills) : log.fills[j] = tape[log.base + j]
    BY LenProperties DEF Inv, TypeOK, WindowAgrees, FillsEnd
  <2>2. /\ log.base <= Len(tape) /\ Len(log.fills) = Len(tape) - log.base
        /\ \A j \in 1 .. Len(log.fills) : log.fills[j] = tape[log.base + j]
    BY <2>1
  <2>3. log.fills = SubSeq(tape, log.base + 1, Len(tape))
    <3>1. ASSUME NEW b \in Nat, NEW e \in Nat, b = log.base, e = Len(tape)
          PROVE  log.fills = SubSeq(tape, b + 1, e)
      <4>1. /\ e <= Len(tape) /\ b <= e /\ Len(log.fills) = e - b
            /\ \A j \in 1 .. Len(log.fills) : log.fills[j] = tape[b + j]
        BY <2>1, <2>2, <3>1
      <4> QED
        BY <2>1, <4>1, PartOfSequence
    <3> QED
      BY <2>1, <3>1
  <2> QED
    BY <2>3 DEF Inv, WindowAgrees, WindowIsATail
<1> QED
  BY <1>1, FillLogInv, PTL
=============================================================================
