------------------------------ MODULE Journal ------------------------------
(***************************************************************************)
(* The binary journal of include/lob/measure/journal.hpp: a header that    *)
(* names the record type, a writer that batches records, whose writes and  *)
(* whose close may fail, and a reader that takes the file back whole.      *)
(*                                                                         *)
(* The C library is external: it may take fewer records than it is given,  *)
(* ending in the middle of one, and it keeps what it took in a buffer      *)
(* that a crash or a failing close loses from any point on.                *)
(***************************************************************************)
EXTENDS Integers, Sequences
JX == INSTANCE SequencesExt

CONSTANTS
  Types,       \* record types: name and size
  Entries,     \* records
  Batch,       \* batch_records, as asked for
  MaxEntries   \* bound on the records of a journal

ASSUME BatchAssumption == Batch \in Nat
ASSUME EntriesAssumption == "none" \notin Types /\ "part" \notin Entries

VARIABLES
  writer,     \* JournalWriter: its type, buffer, counters and flags
  jfile,      \* the file: its header's type, "none" before there is one, and its data
  pending,    \* taken by the C library, not yet in the file
  appended,   \* history: every record appended
  crashed     \* whether the process died with the journal open

jvars == <<writer, jfile, pending, appended, crashed>>

NoType == "none"
Part == "part"     \* part of a record: what follows is out of step
Garbage == "?"     \* what the reader makes of bytes out of step

\* Clamped: append indexes the buffer before it looks whether it is full.
BufferSize == IF Batch = 0 THEN 1 ELSE Batch

Closed == [open |-> FALSE, type |-> NoType, buf |-> <<>>, total |-> 0, failed |-> FALSE]

JournalInit ==
  writer = Closed /\ jfile = [type |-> NoType, data |-> <<>>] /\ pending = <<>> /\ appended = <<>>
  /\ crashed = FALSE

\* The constructor, which throws if the header cannot be written: what the file
\* held is gone.
Open(type) ==
  /\ ~writer.open
  /\ writer' = [Closed EXCEPT !.open = TRUE, !.type = type]
  /\ jfile' = [type |-> type, data |-> <<>>]
  /\ appended' = <<>> /\ crashed' = FALSE /\ UNCHANGED pending

\* What may be taken of what is to be written: all of it, or less, ending
\* anywhere.
Taken(buf) ==
  {buf} \cup UNION {{SubSeq(buf, 1, n), Append(SubSeq(buf, 1, n), Part)} : n \in 0 .. Len(buf) - 1}

\* A plausible slip: the result of the write is dropped.
Unchecked(w, took) == w.failed
Checked(w, took) == w.failed \/ took # w.buf

\* flush, of a writer whose buffer is not empty.
Flushed(w, took) == [w EXCEPT !.buf = <<>>, !.failed = Checked(w, took)]

\* append, and the flush of a buffer that is full.
AppendRecord ==
  /\ writer.open /\ Len(appended) < MaxEntries
  /\ \E r \in Entries :
       LET w == [writer EXCEPT !.buf = Append(@, r), !.total = @ + 1]
       IN /\ appended' = Append(appended, r)
          /\ IF Len(w.buf) = BufferSize
             THEN \E took \in Taken(w.buf) :
                    writer' = Flushed(w, took) /\ pending' = pending \o took
             ELSE writer' = w /\ UNCHANGED pending
  /\ UNCHANGED <<jfile, crashed>>

FlushRecords ==
  /\ writer.open /\ writer.buf # <<>>
  /\ \E took \in Taken(writer.buf) :
       writer' = Flushed(writer, took) /\ pending' = pending \o took
  /\ UNCHANGED <<jfile, appended, crashed>>

CloseChecked(w, all) == w.failed \/ ~all

\* close and the destructor: flush, then fclose, which may find that not all of
\* what the C library took can be written.
Close ==
  /\ writer.open
  /\ \E took \in Taken(writer.buf) :
       LET w == Flushed(writer, took)
           data == pending \o took
       IN \E written \in Taken(data) :
            /\ jfile' = [jfile EXCEPT !.data = @ \o written]
            /\ writer' = [w EXCEPT !.open = FALSE, !.failed = CloseChecked(w, written = data)]
  /\ pending' = <<>> /\ UNCHANGED <<appended, crashed>>

\* The process dies: what is in its buffers is lost from any point on, the
\* header too if nothing has left them yet.
JournalCrash ==
  /\ writer.open
  /\ \/ \E written \in Taken(pending) : jfile' = [jfile EXCEPT !.data = @ \o written]
     \/ jfile.data = <<>> /\ jfile' = [type |-> NoType, data |-> <<>>]
  /\ writer' = [writer EXCEPT !.open = FALSE]
  /\ pending' = <<>> /\ crashed' = TRUE /\ UNCHANGED appended

JournalNext ==
  (\E type \in Types : Open(type)) \/ AppendRecord \/ FlushRecords \/ Close \/ JournalCrash

JournalSpec == JournalInit /\ [][JournalNext]_jvars

-----------------------------------------------------------------------------
\* Only what is read as a whole record is kept; past a part of one the bytes of
\* whole records are out of step, and the last of them is cut short.
WholeRecords(data) ==
  LET parts == {i \in DOMAIN data : data[i] = Part}
      first == CHOOSE i \in parts : \A j \in parts : i <= j
  IN IF parts = {} THEN data
     ELSE [i \in 1 .. Len(data) - 1 |-> IF i < first THEN data[i] ELSE Garbage]

\* journal_read_all throws on a file that is no journal, or of another type.
Throws == <<"throws">>
ReadAll(type) == IF jfile.type = type THEN WholeRecords(jfile.data) ELSE Throws

\* A journal whose writer reports no failure reads back as every record that was
\* appended, in order.  What a crash leaves of one that had not failed yet is
\* how it began: the reader never takes part of a record for one
\* (include/lob/measure/journal.hpp:94).
JournalTellsTheTruth ==
  /\ jfile.type # NoType /\ ~writer.open /\ ~writer.failed /\ ~crashed =>
       ReadAll(writer.type) = appended /\ Len(appended) = writer.total
  /\ ~writer.failed =>
       \A type \in Types :
         ReadAll(type) # Throws => type = writer.type /\ JX!IsPrefix(ReadAll(type), appended)
=============================================================================
