----------------------------- MODULE LogViewer -----------------------------
(***************************************************************************)
(* The log viewer: a thread of the web server reads the log file and sends *)
(* its records (webserver/application/log_viewer.py); a page shows them    *)
(* (static_html/javascript/log_viewer.js).                                 *)
(*                                                                         *)
(* Records are numbers in the order of the log. A record has a first line  *)
(* and at most one more, its continuation. The page asks for the last      *)
(* 20000 records, but the server never gets to see the parameter and       *)
(* begins with the first. Of the three filters one stands for all. Looks,  *)
(* scrolling, collapsing and the rotation of the log are left out.         *)
(***************************************************************************)
EXTENDS Naturals, Sequences, FiniteSets, SequencesExt

CONSTANTS Records,    \* bound: how many records are written
          Long,       \* those that have a continuation
          Verbose,    \* those that the filter hides
          Capacity,   \* MAX_LOG_LINES
          Losses      \* bound: how many connections are lost or refused

ASSUME ViewerAssumption ==
  /\ {Records, Capacity} \subseteq Nat \ {0}
  /\ Losses \in Nat
  /\ Verbose \cup Long \subseteq 1..Records

VARIABLES
  log,       \* lines of the file
  reader,    \* the thread of the present connection, see Reader
  wire,      \* messages, lists of records, on their way to the page
  socket,    \* "connecting", "open", or "lost", when reconnectTimer runs
  buffers,   \* messages whose arrayBuffer promise is not resolved yet
  shown,     \* the children of log-line-container
  lineId,    \* logLineId
  filtering, \* whether the filter is set
  losses,
  mixed,     \* history: since onopen a promise has been resolved before an
             \* older one, or one of an earlier connection
  parted     \* history: records that were the end of the log when the reader
             \* found no further line for the second time

connection == <<socket, losses>>
page == <<buffers, shown, lineId, filtering>>
viewerHistory == <<mixed, parted>>
viewerVars == <<log, reader, wire, connection, page, viewerHistory>>

\* at: lines read; lines: line_buffer; records: record_buffer; missed:
\* no_line_count, up to 2.
Reader(at, lines, records, missed) ==
  [at |-> at, lines |-> lines, records |-> records, missed |-> missed]
NewReader == Reader(0, <<>>, <<>>, 0)

ViewerInit ==
  /\ log = <<>>
  /\ reader = NewReader
  /\ wire = <<>>
  /\ socket = "connecting" /\ losses = 0
  /\ buffers = <<>> /\ shown = <<>> /\ lineId = 0 /\ filtering = FALSE
  /\ mixed = FALSE /\ parted = {}

-----------------------------------------------------------------------------
(* The log.                                                                *)

FirstLine(n) == [record |-> n, first |-> TRUE]
NextLine(n) == [record |-> n, first |-> FALSE]

LastRecord == IF log = <<>> THEN 0 ELSE Last(log).record
HasNextLine(n) == Contains(log, NextLine(n))

WriteLog ==
  /\ \/ LastRecord < Records /\ log' = Append(log, FirstLine(LastRecord + 1))
     \/ /\ LastRecord \in Long /\ Last(log).first
        /\ log' = Append(log, NextLine(LastRecord))
  /\ UNCHANGED <<reader, wire, connection, page, viewerHistory>>

-----------------------------------------------------------------------------
(* LogReaderThread.run                                                     *)

\* add_log_line: a continuation is added to the last record of the buffer; if
\* that has been sent, it is dropped.
AddLine(records, line) ==
  IF line.first THEN Append(records, [record |-> line.record, more |-> FALSE])
  ELSE IF records = <<>> THEN <<>>
  ELSE [records EXCEPT ![Len(records)] = [record |-> Last(records).record,
                                          more |-> TRUE]]

\* A line is added after the other.
AddLines(records, lines) ==
  LET added[k \in 0..Len(lines)] ==
        IF k = 0 THEN records ELSE AddLine(added[k - 1], lines[k])
  IN  added[Len(lines)]

\* send_buffer_if_needed, when the delay has passed (due) or not.
Send(new, due) ==
  IF due /\ new.records # <<>>
  THEN wire' = Append(wire, new.records) /\ reader' = [new EXCEPT !.records = <<>>]
  ELSE reader' = new /\ UNCHANGED wire

\* A mutant: lines are not held back until the next record begins.
ReadLineAtOnce(due) ==
  /\ socket = "open" /\ reader.at < Len(log)
  /\ LET line == log[reader.at + 1]
     IN  Send(Reader(reader.at + 1, <<>>, AddLine(reader.records, line), 0), due)
  /\ UNCHANGED <<log, connection, page, viewerHistory>>

\* When a record begins, the lines before it are added to the buffer.
ReadLine(due) ==
  /\ socket = "open" /\ reader.at < Len(log)
  /\ LET line == log[reader.at + 1]
     IN  IF line.first /\ reader.lines # <<>>
         THEN Send(Reader(reader.at + 1, <<line>>,
                          AddLines(reader.records, reader.lines), 0), due)
         ELSE /\ reader' = Reader(reader.at + 1, Append(reader.lines, line),
                                  reader.records, 0)
              /\ UNCHANGED wire
  /\ UNCHANGED <<log, connection, page, viewerHistory>>

\* A mutant: what is left is added only if there is something in the buffer.
ReadNothingLess(due) ==
  /\ socket = "open" /\ reader.at = Len(log) /\ log # <<>>
  /\ IF reader.missed = 0
     THEN reader' = [reader EXCEPT !.missed = 1] /\ UNCHANGED <<wire, parted>>
     ELSE /\ Send(Reader(reader.at, reader.lines, reader.records, 2), due)
          /\ parted' = IF Last(log).first THEN parted \cup {LastRecord} ELSE parted
  /\ UNCHANGED <<log, connection, page, mixed>>

\* Nothing read twice: all lines are added.
ReadNothing(due) ==
  /\ socket = "open" /\ reader.at = Len(log) /\ log # <<>>
  /\ IF reader.missed = 0
     THEN reader' = [reader EXCEPT !.missed = 1] /\ UNCHANGED <<wire, parted>>
     ELSE /\ Send(Reader(reader.at, <<>>, AddLines(reader.records, reader.lines), 2), due)
          /\ parted' = IF Last(log).first THEN parted \cup {LastRecord} ELSE parted
  /\ UNCHANGED <<log, connection, page, mixed>>

-----------------------------------------------------------------------------
(* The page.                                                               *)

Hides(filter, n) == filter /\ n \in Verbose

\* A mutant: one line too many is kept.
KeptLate(lines) ==
  IF Len(lines) <= Capacity + 1 THEN lines
  ELSE SubSeq(lines, Len(lines) - Capacity, Len(lines))

\* What is left when the first child is removed for each line beyond Capacity.
Kept(lines) ==
  IF Len(lines) <= Capacity THEN lines
  ELSE SubSeq(lines, Len(lines) - Capacity + 1, Len(lines))

\* addRecordToLog, for each record of a message.
AddRecords(records) ==
  /\ shown' = Kept(shown \o [i \in DOMAIN records |->
                               [record |-> records[i].record, more |-> records[i].more,
                                id |-> lineId + i,
                                hidden |-> Hides(filtering, records[i].record)]])
  /\ lineId' = lineId + Len(records)

\* ws.onmessage
Receive ==
  /\ wire # <<>>
  /\ wire' = Tail(wire)
  /\ buffers' = Append(buffers, [old |-> FALSE, records |-> Head(wire)])
  /\ UNCHANGED <<log, reader, connection, shown, lineId, filtering, viewerHistory>>

\* A promise is resolved; nothing keeps them in order.
Resolve(i) ==
  /\ AddRecords(buffers[i].records)
  /\ buffers' = RemoveAt(buffers, i)
  /\ mixed' = (mixed \/ i > 1 \/ buffers[i].old)
  /\ UNCHANGED <<log, reader, wire, connection, filtering, parted>>

\* applyFilter: ids of lines to hide are collected, and lines with these ids
\* hidden.
SetFilter ==
  /\ filtering' = ~filtering
  /\ LET ids == {shown[i].id: i \in {j \in DOMAIN shown:
                                       Hides(filtering', shown[j].record)}}
     IN  shown' = [i \in DOMAIN shown |->
                     [shown[i] EXCEPT !.hidden = shown[i].id \in ids]]
  /\ UNCHANGED <<log, reader, wire, connection, buffers, lineId, viewerHistory>>

\* ws.onclose: the connection is lost, or refused.
Lose ==
  /\ socket \in {"connecting", "open"} /\ losses < Losses
  /\ socket' = "lost" /\ losses' = losses + 1
  /\ wire' = <<>>
  /\ UNCHANGED <<log, reader, page, viewerHistory>>

\* startLog, by the timer.
StartLog ==
  /\ socket = "lost"
  /\ socket' = "connecting"
  /\ lineId' = 0
  /\ buffers' = [i \in DOMAIN buffers |-> [buffers[i] EXCEPT !.old = TRUE]]
  /\ UNCHANGED <<log, reader, wire, losses, shown, filtering, viewerHistory>>

\* A mutant: the lines shown before stay.
OpenKeeps ==
  /\ socket = "connecting"
  /\ socket' = "open"
  /\ reader' = NewReader
  /\ mixed' = FALSE /\ parted' = {}
  /\ UNCHANGED <<log, wire, losses, shown, buffers, lineId, filtering>>

\* on_connect starts a reader; ws.onopen.
Open ==
  /\ socket = "connecting"
  /\ socket' = "open"
  /\ reader' = NewReader
  /\ shown' = <<>>
  /\ mixed' = FALSE /\ parted' = {}
  /\ UNCHANGED <<log, wire, losses, buffers, lineId, filtering>>

-----------------------------------------------------------------------------

\* What goes on by itself: the delay before sending passes, too.
ViewerStep ==
  \/ ReadLine(TRUE) \/ ReadNothing(TRUE) \/ Receive
  \/ \E i \in DOMAIN buffers: Resolve(i)
  \/ StartLog \/ Open

ViewerNext ==
  ViewerStep \/ WriteLog \/ ReadLine(FALSE) \/ ReadNothing(FALSE) \/ SetFilter \/ Lose

ViewerSpec == ViewerInit /\ [][ViewerNext]_viewerVars

-----------------------------------------------------------------------------

SentRecord == [record: 1..Records, more: BOOLEAN]

ViewerTypeOK ==
  /\ \A i \in DOMAIN log: log[i] \in [record: 1..Records, first: BOOLEAN]
  /\ reader.at \in 0..Len(log) /\ reader.missed \in 0..2
  /\ \A i \in DOMAIN reader.lines: reader.lines[i] \in ToSet(log)
  /\ \A records \in {reader.records} \cup ToSet(wire)
                    \cup {buffers[i].records: i \in DOMAIN buffers}:
       ToSet(records) \subseteq SentRecord
  /\ socket \in {"connecting", "open", "lost"}
  /\ losses \in 0..Losses
  /\ Len(shown) <= Capacity
  /\ {filtering, mixed} \subseteq BOOLEAN
  /\ parted \subseteq 1..Records

\* While promises are resolved in order, the page shows consecutive records of
\* the log, each once, through reconnections and with the eldest dropped; and
\* all the text of each, unless the log ended within the record when the reader
\* had looked twice.
ShownIsTheLog ==
  socket = "open" /\ ~mixed =>
    /\ \A i \in DOMAIN shown: shown[i].record = shown[1].record + i - 1
    /\ \A i \in DOMAIN shown:
         HasNextLine(shown[i].record) => shown[i].more \/ shown[i].record \in parted

\* While the page is connected, lines are hidden if the filter says so, and no
\* others, although they are found by ids that begin anew with each connection.
\* (A page that has lost its connection keeps what it shows; nothing is said of it.)
HiddenIfFiltered ==
  socket = "open" =>
    \A i \in DOMAIN shown: shown[i].hidden <=> Hides(filtering, shown[i].record)

\* What is written is shown in the end, or has made room for later records
\* (unless promises were resolved out of order): the reader does not wait for a
\* further record to send the last one.
EveryRecordIsShown ==
  \A n \in 1..Records:
    LastRecord = n ~> mixed \/ \E i \in DOMAIN shown: shown[i].record >= n
=============================================================================
