---------------------------- MODULE EventStore ----------------------------
(* FileEventStore over the index it keeps in a MemoryEventStore             *)
(* (src/storage/event_store.cpp, event_log_wire.hpp).                        *)
(*                                                                          *)
(* The log file is a sequence of lines. A line is whole or torn, ended by a *)
(* newline or not; a process may die, or a write may fail, after any prefix *)
(* of what one append writes. Record bodies, digests and timestamps are     *)
(* abstracted to the request a line carries: a torn line, and two lines run *)
(* together, decode to nothing. Callers are batches of requests, retried    *)
(* with the same event ids after an error or a crash, and one paging reader.*)
EXTENDS Integers, FiniteSets, SequencesExt

CONSTANTS Clients,      \* callers of append_batch
          Batch,          \* the requests of each caller, in order
          Capacity,       \* max_events of the store
          Session,        \* the session the reader follows
          PageLimit,      \* EventQuery::limit of the reader
          LegacyLogs      \* the files a store may be opened on

VARIABLES file,         \* the lines of events.log
          store,          \* the open FileEventStore: flags, status and index
          pc, pos,        \* each caller's step inside append, and its place in its batch
          acked,          \* receipts returned: <<event id, session sequence>>
          reader,         \* the reader's step, cursor and what it has read
          overlooked      \* history: <<>>, or the committed log and the receipts when a
                          \* failing disk first made recovery overlook records

vars == <<file, store, pc, pos, acked, reader, overlooked>>

Requests == UNION {ToSet(Batch[c]) : c \in Clients}

\* A line: a format line, a record with the sequence it was given, or bytes
\* that decode to nothing.
Line(kind, event, seq, ended) == [kind |-> kind, event |-> event, seq |-> seq, ended |-> ended]
NoEvent == [id |-> 0, session |-> 0, body |-> 0]
Torn(ended) == Line("torn", NoEvent, 0, ended)

\* A store that has not scanned its file.
NewStore == [loaded |-> FALSE, v2 |-> FALSE, sep |-> FALSE, ro |-> FALSE,
             status |-> "Clean", index |-> <<>>]

---------------------------------------------------------------------------
(* The index: session sequences are ranks, because next_session advances    *)
(* with every indexed event and with nothing else.                          *)

Indexed(index, id) == \E i \in 1..Len(index) : index[i].id = id
Position(index, id) == CHOOSE i \in 1..Len(index) : index[i].id = id
Sequence(index, i) == Cardinality({j \in 1..i : index[j].session = index[i].session})
NextSequence(index, session) ==
    1 + Cardinality({j \in 1..Len(index) : index[j].session = session})

\* Whether append_stamped stores a new event, rather than refusing it at capacity.
IndexHasRoom(index) == Len(index) < Capacity

---------------------------------------------------------------------------
(* Writing. append writes an optional separator, the two format lines when  *)
(* the file has none, and the record; each ends with a newline.             *)

\* Adds one line: after an unended line its bytes run into that line.
PutLine(f, line) ==
    IF f # <<>> /\ ~f[Len(f)].ended
    THEN [f EXCEPT ![Len(f)] = Torn(line.ended)]
    ELSE Append(f, line)

EndLastLine(f) == IF f = <<>> THEN f ELSE [f EXCEPT ![Len(f)].ended = TRUE]

\* The lines of one append, before any of them is written.
LinesOf(e) ==
    (IF store.v2 THEN <<>>
     ELSE <<Line("header", NoEvent, 0, TRUE), Line("marker", NoEvent, 0, TRUE)>>)
    \o <<Line("event", e, NextSequence(store.index, e.session), TRUE)>>

Separated == IF store.sep THEN EndLastLine(file) ELSE file

Written(e) == FoldLeft(PutLine, Separated, LinesOf(e))

\* The files a write of e can leave when it stops early: some lines are out,
\* the next one is missing, torn, or whole without its newline.
PartlyWritten(e) ==
    {file} \cup
    UNION {LET lines == LinesOf(e)
               before == FoldLeft(PutLine, Separated, SubSeq(lines, 1, k))
           IN  {before, PutLine(before, Torn(FALSE)),
                PutLine(before, [lines[k + 1] EXCEPT !.ended = FALSE])}
           : k \in 0..(Len(LinesOf(e)) - 1)}

---------------------------------------------------------------------------
(* Recovery: one pass over the lines. "good" counts the lines before        *)
(* last_good_offset; "more" is what malformed() is told about the rest.     *)

Scanning == "Scanning"
Start == [v2 |-> FALSE, header |-> FALSE, sep |-> FALSE, index |-> <<>>,
          good |-> 0, status |-> Scanning]

\* malformed(): an unfinished tail may be cut off, anything else is kept and read-only.
Malformed(s, more) == [s EXCEPT !.status = IF more THEN "ReadOnlyDiagnostic" ELSE "Tail"]

ScanRecord(s, line, i) ==
    IF (line.kind = "event") # s.v2
      THEN [s EXCEPT !.status = "ReadOnlyDiagnostic"]
    ELSE IF \/ line.seq # NextSequence(s.index, line.event.session)
            \/ Indexed(s.index, line.event.id)
            \/ ~IndexHasRoom(s.index)
      THEN [s EXCEPT !.status = "DataLoss"]
    ELSE [s EXCEPT !.index = Append(@, line.event), !.good = i, !.sep = ~line.ended]

ScanLine(s, f, i) ==
    LET line == f[i]
        more == i < Len(f)
    IN CASE s.header ->
              IF line.kind = "marker"
                THEN [s EXCEPT !.header = FALSE, !.v2 = TRUE, !.sep = ~line.ended, !.good = i]
              ELSE IF line.kind = "torn" THEN Malformed(s, line.ended \/ more)
              ELSE [s EXCEPT !.status = "ReadOnlyDiagnostic"]
         [] ~s.header /\ line.kind = "torn" -> Malformed(s, (s.v2 /\ line.ended) \/ more)
         [] ~s.header /\ line.kind = "header" ->
              IF s.v2 THEN [s EXCEPT !.status = "DataLoss"] ELSE [s EXCEPT !.header = TRUE]
         [] ~s.header /\ line.kind = "marker" -> [s EXCEPT !.status = "ReadOnlyDiagnostic"]
         [] OTHER -> ScanRecord(s, line, i)

Scan(f) ==
    LET after[i \in 0..Len(f)] ==
          IF i = 0 THEN Start
          ELSE IF after[i - 1].status # Scanning THEN after[i - 1]
          ELSE ScanLine(after[i - 1], f, i)
        last == after[Len(f)]
    IN  IF last.status = Scanning /\ last.header THEN Malformed(last, FALSE) ELSE last

\* Mutant: recovery forgets that the last line lacks its newline.
LoadedFrom_NoSeparator(s, status) ==
    [loaded |-> TRUE, v2 |-> s.v2, sep |-> FALSE,
     ro |-> status \in {"DataLoss", "ReadOnlyDiagnostic"}, status |-> status, index |-> s.index]

\* The store and the file after a scan; cut says whether truncating succeeds.
LoadedFrom(s, status) ==
    [loaded |-> TRUE, v2 |-> s.v2, sep |-> status # "TailTruncated" /\ s.sep,
     ro |-> status \in {"DataLoss", "ReadOnlyDiagnostic"}, status |-> status, index |-> s.index]

\* How the disk serves one recovery: whether the log opens for reading, how many
\* lines are read before a read error (all of them without one), and whether the
\* log can be truncated.
Disk == [opens : {TRUE}, lines : 0..Len(file), cuts : BOOLEAN]
        \cup {[opens |-> FALSE, lines |-> 0, cuts |-> TRUE]}

RecoveryStatus(s, repair, disk) ==
    CASE ~disk.opens -> "Clean"
      [] disk.opens /\ s.status = Scanning ->
            IF disk.lines < Len(file) THEN "ReadOnlyDiagnostic" ELSE "Clean"
      [] s.status = "Tail" -> IF repair /\ disk.cuts THEN "TailTruncated" ELSE "ReadOnlyDiagnostic"
      [] OTHER -> s.status

\* Mutant: repair cuts one line too many.
Truncated_CutsGoodLine(s) == SubSeq(file, 1, s.good - 1)

Truncated(s) == SubSeq(file, 1, s.good)

\* The committed events: the whole records of the file, in file order.
Committed(f) ==
    LET records == SelectSeq(f, LAMBDA l : l.kind \in {"legacy", "event"})
    IN  [i \in 1..Len(records) |-> records[i].event]

\* A log that does not open is taken for a new one, and a read error between the
\* two format lines for an unfinished tail: both leave a writable store that has
\* not seen the whole file.
Overlooks(disk, status) ==
    disk.lines < Len(file) /\ status \in {"Clean", "TailTruncated"}

recover(repair) ==
    IF store.loaded THEN UNCHANGED <<store, file, overlooked>>
    ELSE \E disk \in Disk :
         LET s == Scan(SubSeq(file, 1, disk.lines))
             status == RecoveryStatus(s, repair, disk)
         IN  /\ store' = LoadedFrom(s, status)
             /\ file' = IF status = "TailTruncated" THEN Truncated(s) ELSE file
             /\ overlooked' = IF overlooked = <<>> /\ Overlooks(disk, status)
                              THEN <<Committed(file), acked>> ELSE overlooked

---------------------------------------------------------------------------
(* append, in the three critical sections the code runs it in, called for   *)
(* each request of a batch in turn. The first error ends the batch.         *)

Request(c) == Batch[c][pos[c]]
Goto(c, step) == pc' = [pc EXCEPT ![c] = step]
\* Mutant: a batch goes on with its next request after an error.
Fail_SkipsRequest(c) ==
    /\ Goto(c, IF pos[c] = Len(Batch[c]) THEN "failed" ELSE "idle")
    /\ pos' = [pos EXCEPT ![c] = IF @ = Len(Batch[c]) THEN @ ELSE @ + 1]
    /\ UNCHANGED acked

Fail(c) == Goto(c, "failed") /\ UNCHANGED <<pos, acked>>

Receipt(c, seq) ==
    /\ acked' = acked \cup {<<Request(c).id, seq>>}
    /\ pos' = [pos EXCEPT ![c] = @ + 1]
    /\ Goto(c, IF pos[c] = Len(Batch[c]) THEN "done" ELSE "idle")

append_check(c) ==
    /\ pc[c] = "idle"
    /\ IF store.loaded /\ store.ro THEN Fail(c)
       ELSE /\ Goto(c, IF store.loaded THEN "append" ELSE "recover")
            /\ UNCHANGED <<pos, acked>>
    /\ UNCHANGED <<file, store, reader, overlooked>>

append_recover(c) ==
    /\ pc[c] = "recover"
    /\ recover(TRUE)
    /\ IF store'.ro THEN Fail(c) ELSE Goto(c, "append") /\ UNCHANGED <<pos, acked>>
    /\ UNCHANGED reader

\* An id that is already indexed: its receipt again, or a refusal.
AppendDuplicate(c) ==
    LET i == Position(store.index, Request(c).id) IN
    /\ IF store.index[i] = Request(c)
       THEN Receipt(c, Sequence(store.index, i)) ELSE Fail(c)
    /\ UNCHANGED <<file, store>>

\* The write fails part way: nothing more is written until the store is reopened.
AppendWriteFails(c) ==
    /\ file' \in PartlyWritten(Request(c)) \cup {Written(Request(c))}
    /\ store' = [store EXCEPT !.ro = TRUE, !.status = "ReadOnlyDiagnostic"]
    /\ Fail(c)

\* The record is in the file before the index is asked whether it has room.
AppendWrites(c) ==
    /\ file' = Written(Request(c))
    /\ IF IndexHasRoom(store.index)
       THEN /\ store' = [store EXCEPT !.v2 = TRUE, !.sep = FALSE,
                                      !.index = Append(@, Request(c))]
            /\ Receipt(c, NextSequence(store.index, Request(c).session))
       ELSE /\ store' = [store EXCEPT !.v2 = TRUE, !.sep = FALSE,
                                      !.ro = TRUE, !.status = "DataLoss"]
            /\ Fail(c)

append(c) ==
    /\ pc[c] = "append"
    /\ IF store.ro THEN Fail(c) /\ UNCHANGED <<file, store>>
       ELSE IF Indexed(store.index, Request(c).id) THEN AppendDuplicate(c)
       ELSE \/ Fail(c) /\ UNCHANGED <<file, store>>      \* the log cannot be opened
            \/ AppendWriteFails(c)
            \/ AppendWrites(c)
    /\ UNCHANGED <<reader, overlooked>>

\* The caller runs its whole batch again, with the same event ids.
RetryBatch(c) ==
    /\ pc[c] = "failed"
    /\ Goto(c, "idle") /\ pos' = [pos EXCEPT ![c] = 1]
    /\ UNCHANGED <<file, store, acked, reader, overlooked>>

---------------------------------------------------------------------------
(* recover and flush called by the host, and a reader that pages through    *)
(* one session while others append. read looks at the flags and reads the   *)
(* index in separate critical sections.                                     *)

Recover ==
    /\ \E repair \in BOOLEAN : recover(repair)
    /\ UNCHANGED <<pc, pos, acked, reader>>

read_check ==
    /\ reader.pc = "idle"
    /\ recover(TRUE)
    /\ ~store'.ro
    /\ reader' = [reader EXCEPT !.pc = "read"]
    /\ UNCHANGED <<pc, pos, acked>>

PageAfter(index, after) ==
    LET later == {i \in 1..Len(index) : /\ index[i].session = Session
                                        /\ Sequence(index, i) > after}
        page == {i \in later : Cardinality({j \in later : j < i}) < PageLimit}
    IN  SetToSortSeq(page, LAMBDA i, j : i < j)

read ==
    /\ reader.pc = "read"
    /\ LET page == PageAfter(store.index, reader.after) IN
       reader' = [pc |-> "idle",
                  after |-> IF page = <<>> THEN reader.after
                            ELSE Sequence(store.index, Last(page)),
                  seen |-> reader.seen \o [i \in 1..Len(page) |-> store.index[page[i]]]]
    /\ UNCHANGED <<file, store, pc, pos, acked, overlooked>>

---------------------------------------------------------------------------
(* The process dies, possibly in the middle of a write, and a new store is  *)
(* opened on the file. Closing a store and opening it again is the case in  *)
(* which nothing was being written.                                         *)

InFlight == {c \in Clients : /\ pc[c] = "append" /\ ~store.ro
                             /\ ~Indexed(store.index, Request(c).id)}

Crash ==
    /\ file' \in {file} \cup UNION {PartlyWritten(Request(c)) \cup {Written(Request(c))}
                                    : c \in InFlight}
    /\ store' = NewStore
    /\ pc' = [c \in Clients |-> IF pc[c] = "done" THEN "done" ELSE "failed"]
    /\ reader' = [reader EXCEPT !.pc = "idle"]
    /\ UNCHANGED <<pos, acked, overlooked>>

Init ==
    /\ file \in LegacyLogs
    /\ store = NewStore
    /\ pc = [c \in Clients |-> "idle"]
    /\ pos = [c \in Clients |-> 1]
    /\ acked = {}
    /\ reader = [pc |-> "idle", after |-> 0, seen |-> <<>>]
    /\ overlooked = <<>>

\* Once records were overlooked the store promises nothing, and its file may grow
\* by the same records for ever: it is followed no further.
Next ==
    \/ /\ overlooked = <<>>
       /\ \/ \E c \in Clients :
                append_check(c) \/ append_recover(c) \/ append(c) \/ RetryBatch(c)
          \/ read_check \/ read \/ Crash
    \/ Recover

Spec == Init /\ [][Next]_vars

---------------------------------------------------------------------------
(* Properties *)

TypeOK ==
    /\ \A i \in 1..Len(file) : /\ file[i].kind \in {"legacy", "header", "marker", "event", "torn"}
                               /\ file[i].ended \in BOOLEAN /\ file[i].seq \in Nat
    /\ store.status \in {"Clean", "TailTruncated", "ReadOnlyDiagnostic", "DataLoss"}
    /\ {store.loaded, store.v2, store.sep, store.ro} \subseteq BOOLEAN
    /\ Len(store.index) <= Capacity
    /\ pc \in [Clients -> {"idle", "recover", "append", "done", "failed"}]
    /\ \A c \in Clients : pos[c] \in 1..(Len(Batch[c]) + 1)
    /\ reader.after \in Nat

\* Unless a failing disk made a recovery overlook records, what follows holds.

\* While a store is writable its index is exactly the committed records of the
\* file, needs_separator says whether the last line lacks its newline, and v2
\* says whether the format lines are there (append and recover in event_store.cpp).
IndexMirrorsFile ==
    overlooked = <<>> /\ store.loaded /\ ~store.ro =>
        /\ store.index = Committed(file)
        /\ store.sep = (file # <<>> /\ ~Last(file).ended)
        /\ store.v2 = (\E i \in 1..Len(file) : file[i].kind = "marker")
        /\ \A i \in 1..Len(file) : file[i].kind # "torn"

\* However a write was cut short, a later recovery with tail repair succeeds and
\* indexes every committed record. A log that outgrew max_events did so by the
\* one record that was written before the index refused it; every later recovery
\* reports it and still indexes the others (append and append_stamped).
CrashNeverCondemnsLog ==
    overlooked = <<>> =>
        LET log == Committed(file)
            scan == Scan(file)
        IN  IF Len(log) <= Capacity
            THEN scan.status \in {Scanning, "Tail"} /\ scan.index = log
            ELSE /\ Len(log) = Capacity + 1
                 /\ scan.status = "DataLoss" /\ scan.index = SubSeq(log, 1, Capacity)

\* The requests of a batch are committed in batch order even when the batch is
\* aborted part way and run again, because a retry stops at the first error and
\* recognises the ids it already wrote (append_batch).
BatchOrder ==
    overlooked = <<>> =>
        \A c \in Clients : \A i, j \in 1..Len(Batch[c]) :
            LET log == Committed(file)
                at(k) == {n \in 1..Len(log) : log[n] = Batch[c][k]}
            IN  i < j /\ at(j) # {} =>
                    at(i) # {} /\ \A m \in at(i), n \in at(j) : m < n

\* A reader that keeps its cursor across pages, appends and restarts has read
\* exactly the first events of its session: none missed, none twice (read).
ReaderSeesPrefix ==
    overlooked = <<>> =>
        IsPrefix(reader.seen, SelectSeq(Committed(file), LAMBDA e : e.session = Session))

\* The store is an append-only log whose receipts are never withdrawn, for as
\* long as no failing disk makes a recovery overlook a part of it.
Log == INSTANCE DurableLog WITH
    log <- IF overlooked = <<>> THEN Committed(file) ELSE overlooked[1],
    acked <- IF overlooked = <<>> THEN acked ELSE overlooked[2],
    Events <- Requests, Initial <- {Committed(f) : f \in LegacyLogs}
ImplementsDurableLog == Log!Spec
============================================================================
