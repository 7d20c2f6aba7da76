--------------------------- MODULE UsageCollection ---------------------------
(***************************************************************************)
(* Collection of provider usage into a ledger, and the usage records of    *)
(* runs (src/peoplebot/usage.py).  A collection reads the lines of one     *)
(* growing source from a saved cursor on, appends what they measure to the *)
(* ledger, replaces the cursor, and writes an admission computed from the  *)
(* ledger.  No lock is taken: a scheduled collection and a manual report   *)
(* may overlap, and each may be killed at any step.                        *)
(***************************************************************************)
EXTENDS Naturals, FiniteSets, SequencesExt

CONSTANTS
  Collecting,    \* processes that run usage-collect
  Reporting,     \* processes that run usage-report-run
  Run,           \* run identities
  Line,          \* Line[i]: the i-th complete line the source will ever have
  Turns,         \* Turns[r]: lines that belong to the provider turns of run r
  Config,        \* the collection configuration that all of them load
  Profile,       \* Profile[c]: the Instance profile that c reports through
  MaxKills, MaxReplaced, MaxReports,
  None

ASSUME UsageAssumption ==
  /\ Len(Line) \in Nat /\ DOMAIN Line = 1 .. Len(Line)
  /\ \A i \in DOMAIN Line : /\ Line[i].type \in {"usage", "count", "other"} /\ Line[i].tokens \in BOOLEAN
                           /\ Line[i].windows \in {"none", "above", "below"}
  /\ Config.source_format \in {"record", "count"} /\ Config.conservative \in BOOLEAN
  /\ \A r \in Run : Turns[r] \subseteq DOMAIN Line
  /\ MaxKills \in Nat /\ MaxReplaced \in Nat /\ MaxReports \in Nat

(* The files of a source are numbered, and what is written says which of     *)
(* them it is about.                                                         *)
Gen == 1 .. MaxReplaced + 1
EventSet == [gen : Gen, line : DOMAIN Line, type : {"tokens", "allowance"}]
CursorValue == [offset : 0 .. Len(Line), prefix : Gen \union {None}]
RecordValue ==
  [phase : {"start", "completion", "recovery"}, linked : BOOLEAN, boundary : 0 .. Len(Line),
   calls : Seq(EventSet), latest : EventSet \union {None},
   finality : {"open", "provisional", "provisional_after_reconciliation"}]

(* None is nothing else: no run, no file, no event, no cursor, no record.    *)
ASSUME NoneAssumption == None \notin Run \union Gen \union EventSet \union CursorValue \union RecordValue

Collector == Collecting \union Reporting

VARIABLES
  source,    \* the source: absent or not, which file it is, complete lines, a line begun
  ledger,    \* the events of the ledger
  tail,      \* how the ledger's text ends, or "glued": one of its lines is malformed
  cursor,    \* the cursor file, None where there is none
  temp,      \* the temporary file of the cursor, None where there is none
  records,   \* records[r]: the usage record of run r
  col,       \* col[c]: what process c holds
  solo,      \* no two processes have ever run at the same time
  kills,     \* processes killed, and below it reports begun: for their bounds
  reports

vars == <<source, ledger, tail, cursor, temp, records, col, solo, kills, reports>>
files == <<ledger, tail, cursor, temp, records>>

-----------------------------------------------------------------------------
(* What one line yields.  A line that is not JSON, or measures nothing, is   *)
(* of type "other".  A record of another session is passed over; a count     *)
(* yields its tokens and then its allowance windows.                         *)
UsageRecord(l) == IF l.type = "usage" /\ l.session = Config.session_id /\ l.tokens THEN <<"tokens">> ELSE <<>>
TokenCounts(l) ==
  IF l.type # "count" THEN <<>>
  ELSE (IF l.tokens THEN <<"tokens">> ELSE <<>>) \o (IF l.windows # "none" THEN <<"allowance">> ELSE <<>>)
Parsed(i) == IF Config.source_format = "record" THEN UsageRecord(Line[i]) ELSE TokenCounts(Line[i])

(* An event is identified by its source, the offset of its line, and its     *)
(* type.                                                                     *)
Event(gen, i, kind) == [gen |-> gen, line |-> i, type |-> kind]
EventsOf(gen, i) == [k \in DOMAIN Parsed(i) |-> Event(gen, i, Parsed(i)[k])]
Events(gen, from, to) == FlattenSeq([k \in 1 .. (to - from) |-> EventsOf(gen, from + k)])

(* The events for which a test holds, in their order.                        *)
Only(events, Test(_)) ==
  LET upTo[n \in 0 .. Len(events)] ==
        IF n = 0 THEN <<>> ELSE IF Test(events[n]) THEN Append(upTo[n - 1], events[n]) ELSE upTo[n - 1]
  IN upTo[Len(events)]
Unseen(events, ids) == Only(events, LAMBDA e : e \notin ids)

(* A text appended after one that does not end with a newline makes one line *)
(* of the two, which is no longer JSON.                                      *)
AppendedTo(events) ==
  CASE tail = "torn" -> ledger \o SubSeq(events, 2, Len(events))
    [] tail = "bare" -> Front(ledger) \o SubSeq(events, 2, Len(events))
    [] OTHER         -> ledger \o events
TailAfter(end) == IF tail = "whole" THEN end ELSE "glued"
Malformed == tail \in {"torn", "glued"}

NoCursor == [offset |-> 0, prefix |-> None]
LoadedCursor == IF cursor = None THEN NoCursor ELSE cursor

(* The last reading of the ledger decides, whatever its own time.            *)
Readings(events) == Only(events, LAMBDA e : e.type = "allowance")
Admission_First(events, stale) ==
  LET reading == IF Readings(events) = <<>> THEN None ELSE Head(Readings(events))
      status == CASE reading = None -> "missing" [] stale -> "stale" [] OTHER -> "current"
  IN [reading |-> reading, status |-> status,
      admitted |-> IF status = "current" THEN Line[reading.line].windows # "below" ELSE ~Config.conservative]
Admission(events, stale) ==
  LET reading == IF Readings(events) = <<>> THEN None ELSE Last(Readings(events))
      status == CASE reading = None -> "missing" [] stale -> "stale" [] OTHER -> "current"
  IN [reading |-> reading, status |-> status,
      admitted |-> IF status = "current" THEN Line[reading.line].windows # "below" ELSE ~Config.conservative]

(* The calls of the run's turns that the ledger holds, in its order.  (The   *)
(* turns are those of the first source: another one has turns of its own.)   *)
AggregateTurns_AnyEvent(events, turns) ==
  Only(events, LAMBDA e : e.gen = 1 /\ e.line \in turns)
AggregateTurns(events, turns) ==
  Only(events, LAMBDA e : e.type = "tokens" /\ e.gen = 1 /\ e.line \in turns)

LatestObservation(events) ==
  LET calls == Only(events, LAMBDA e : e.type = "tokens") IN IF calls = <<>> THEN None ELSE Last(calls)

Finality_Recovery(phase, prior, offset) ==
  CASE phase = "start" -> "open"
    [] /\ phase = "recovery" /\ prior # None
       /\ prior.phase = "completion"
       /\ offset > prior.boundary -> "provisional_after_reconciliation"
    [] OTHER -> "provisional"
Finality(phase, prior, offset) ==
  CASE phase = "start" -> "open"
    [] /\ prior # None
       /\ prior.phase = "completion"
       /\ offset > prior.boundary -> "provisional_after_reconciliation"
    [] OTHER -> "provisional"

-----------------------------------------------------------------------------
Idle == [pc |-> "idle", phase |-> "manual", run |-> None, given |-> FALSE, prior |-> None, read |-> NoCursor,
         gen |-> None, end |-> 0, new |-> <<>>, value |-> None]

Init ==
  /\ source = [present |-> FALSE, gen |-> 1, lines |-> 0, begun |-> FALSE]
  /\ ledger = <<>> /\ tail = "whole"
  /\ cursor = None /\ temp = None
  /\ records = [r \in Run |-> None]
  /\ col = [c \in Collector |-> Idle]
  /\ solo = TRUE /\ kills = 0 /\ reports = 0

At(c, pc) == col[c].pc = pc
Go(c, pc) == col' = [col EXCEPT ![c].pc = pc]
Reports(c) == col[c].run # None
ProfileMatches(c) ==
  Profile[c].active /\ \A id \in {"environment_id", "instance_id", "session_id"} : Profile[c][id] = Config[id]
Alone(reporting) ==
  /\ reporting => solo /\ \A d \in Collector : At(d, "idle")
  /\ reports > 0 => \A d \in Collector : At(d, "idle")

(* The provider appends to the source, completes the line it has begun, or   *)
(* its file is replaced by another one, empty or whole, that stays as it is. *)
Grow ==
  /\ source.lines < Len(Line) /\ source.gen = 1
  /\ source' = [source EXCEPT !.present = TRUE, !.lines = @ + 1, !.begun = FALSE]
  /\ UNCHANGED <<files, col, solo, kills, reports>>

BeginLine ==
  /\ source.lines < Len(Line) /\ ~source.begun /\ source.gen = 1
  /\ source' = [source EXCEPT !.present = TRUE, !.begun = TRUE]
  /\ UNCHANGED <<files, col, solo, kills, reports>>

ReplaceSource ==
  /\ source.present /\ source.gen <= MaxReplaced
  /\ \E n \in {0, Len(Line)} : source' = [source EXCEPT !.gen = @ + 1, !.lines = n, !.begun = FALSE]
  /\ UNCHANGED <<files, col, solo, kills, reports>>

(* usage-collect, or usage-report-run of run r: a completion needs the       *)
(* record that a start or a recovery left.  Reports are followed where no    *)
(* two processes overlap; two that overlap do to the ledger what two         *)
(* collections do.                                                           *)
Begin(c, phase, r, given) ==
  /\ At(c, "idle")
  /\ Alone(r # None)
  /\ phase = "completion" => records[r] # None
  /\ col' = [col EXCEPT ![c] = [Idle EXCEPT !.pc = "load", !.phase = phase, !.run = r, !.given = given,
                                            !.prior = IF r = None THEN None ELSE records[r]]]
  /\ solo' = (solo /\ \A d \in Collector : At(d, "idle"))
  /\ UNCHANGED <<source, files, kills>>

Collect(c) == Begin(c, "manual", None, FALSE) /\ UNCHANGED reports
Report(c) ==
  /\ reports < MaxReports /\ ProfileMatches(c)
  /\ \E r \in Run, given \in BOOLEAN :
       \/ ~given /\ Begin(c, "start", r, given)
       \/ \E phase \in {"completion", "recovery"} : Begin(c, phase, r, given)
  /\ reports' = reports + 1

LoadCursor(c) ==
  /\ At(c, "load")
  /\ col' = [col EXCEPT ![c].read = LoadedCursor, ![c].pc = "source"]
  /\ UNCHANGED <<source, files, solo, kills, reports>>

(* Without a source the cursor stays as it is.                               *)
SourceMissing(c) ==
  /\ At(c, "source") /\ ~source.present
  /\ col' = [col EXCEPT ![c].end = col[c].read.offset, ![c].pc = "ledger"]
  /\ UNCHANGED <<source, files, solo, kills, reports>>

(* The prefix tells one source from another; a cursor saved while the source *)
(* was empty has none.  Only complete lines are read.                        *)
Raises(c) ==
  \/ source.lines < col[c].read.offset
  \/ col[c].read.prefix \notin {None, source.gen}
ReadSource(c) ==
  /\ At(c, "source") /\ source.present
  /\ ~Raises(c)
  /\ col' = [col EXCEPT ![c].end = source.lines, ![c].pc = "ids",
                        ![c].gen = IF source.lines > 0 \/ source.begun THEN source.gen ELSE None]
  /\ UNCHANGED <<source, files, solo, kills, reports>>
SourceChanged(c) ==
  /\ At(c, "source") /\ source.present
  /\ Raises(c)
  /\ col' = [col EXCEPT ![c] = Idle]
  /\ UNCHANGED <<source, files, solo, kills, reports>>

(* The events of the lines read that the ledger does not hold yet.           *)
ReadIds_Trusting(c) ==
  /\ At(c, "ids") /\ ~Malformed
  /\ col' = [col EXCEPT ![c].pc = "append", ![c].new = Events(col[c].gen, col[c].read.offset, col[c].end)]
  /\ UNCHANGED <<source, files, solo, kills, reports>>
ReadIds(c) ==
  /\ At(c, "ids") /\ ~Malformed
  /\ col' = [col EXCEPT ![c].pc = "append", ![c].new = Unseen(Events(col[c].gen, col[c].read.offset, col[c].end), Range(ledger))]
  /\ UNCHANGED <<source, files, solo, kills, reports>>

LedgerMalformed(c) ==
  /\ col[c].pc \in {"ids", "ledger", "record"} /\ Malformed
  /\ col' = [col EXCEPT ![c] = Idle]
  /\ UNCHANGED <<source, files, solo, kills, reports>>

AppendEvents(c) ==
  /\ At(c, "append")
  /\ IF col[c].new = <<>> THEN UNCHANGED <<ledger, tail>>
     ELSE ledger' = AppendedTo(col[c].new) /\ tail' = TailAfter("whole")
  /\ col' = [col EXCEPT ![c].pc = "cursor", ![c].new = <<>>]
  /\ UNCHANGED <<source, cursor, temp, records, solo, kills, reports>>

WriteCursor(c) ==
  /\ At(c, "cursor")
  /\ temp' = [offset |-> col[c].end,
              prefix |-> IF col[c].read.prefix = None THEN col[c].gen ELSE col[c].read.prefix]
  /\ col' = [col EXCEPT ![c].pc = "rename", ![c].read = NoCursor, ![c].gen = None]
  /\ UNCHANGED <<source, ledger, tail, cursor, records, solo, kills, reports>>

RenameCursor(c) ==
  /\ At(c, "rename") /\ temp # None
  /\ cursor' = temp /\ temp' = None
  /\ Go(c, "ledger")
  /\ UNCHANGED <<source, ledger, tail, records, solo, kills, reports>>

(* No file of this model is read from the admission: it is the value that is *)
(* written at the next step and returned.  Its temporary file is shared, too:*)
(* where processes have overlapped, its rename may fail.                     *)
ReadLedger(c) ==
  /\ At(c, "ledger") /\ ~Malformed
  /\ \E stale \in BOOLEAN : col' = [col EXCEPT ![c].value = Admission(ledger, stale), ![c].pc = "admission"]
  /\ UNCHANGED <<source, files, solo, kills, reports>>

WriteAdmission(c) ==
  /\ At(c, "admission")
  /\ col' = [col EXCEPT ![c] = IF Reports(c) THEN [@ EXCEPT !.pc = "record", !.value = None] ELSE Idle]
  /\ UNCHANGED <<source, files, solo, kills, reports>>

RenameFails(c) ==
  /\ \/ At(c, "rename") /\ temp = None
     \/ At(c, "admission") /\ ~solo
  /\ col' = [col EXCEPT ![c] = Idle]
  /\ UNCHANGED <<source, files, solo, kills, reports>>

(* report_run_usage reads the ledger again, and writes the run's record from *)
(* it and from the record it read before the collection.                     *)
WriteRecord(c) ==
  LET p == col[c].prior
      linked == col[c].given \/ (p # None /\ p.linked)
  IN /\ At(c, "record") /\ ~Malformed
     /\ records' = [records EXCEPT ![col[c].run] =
          [phase |-> col[c].phase, linked |-> linked, boundary |-> col[c].end,
           calls |-> AggregateTurns(ledger, IF linked THEN Turns[col[c].run] ELSE {}),
           latest |-> LatestObservation(ledger),
           finality |-> Finality(col[c].phase, p, col[c].end)]]
     /\ col' = [col EXCEPT ![c] = Idle]
     /\ UNCHANGED <<source, ledger, tail, cursor, temp, solo, kills, reports>>

(* A process is killed, between two steps or in the middle of its append,    *)
(* which then leaves some of its events, and of the next one any part:       *)
(* nothing, a piece, or all of it but the newline.                           *)
Kill(c) ==
  /\ ~At(c, "idle") /\ kills < MaxKills
  /\ kills' = kills + 1
  /\ col' = [col EXCEPT ![c] = Idle]
  /\ UNCHANGED <<source, files, solo, reports>>

KillAppending(c) ==
  /\ At(c, "append") /\ kills < MaxKills
  /\ \E n \in 1 .. Len(col[c].new), end \in {"whole", "torn", "bare"} :
       /\ ledger' = AppendedTo(SubSeq(col[c].new, 1, IF end = "torn" THEN n - 1 ELSE n))
       /\ tail' = TailAfter(end)
  /\ kills' = kills + 1
  /\ col' = [col EXCEPT ![c] = Idle]
  /\ UNCHANGED <<source, cursor, temp, records, solo, reports>>

-----------------------------------------------------------------------------
Step(c) ==
  \/ LoadCursor(c) \/ SourceMissing(c) \/ SourceChanged(c) \/ ReadSource(c)
  \/ ReadIds(c) \/ LedgerMalformed(c) \/ AppendEvents(c)
  \/ WriteCursor(c) \/ RenameCursor(c) \/ RenameFails(c)
  \/ ReadLedger(c) \/ WriteAdmission(c) \/ WriteRecord(c)

Next ==
  \/ Grow \/ BeginLine \/ ReplaceSource
  \/ \E c \in Collecting : Collect(c)
  \/ \E c \in Reporting : Report(c)
  \/ \E c \in Collector : Step(c) \/ Kill(c) \/ KillAppending(c)

Spec == Init /\ [][Next]_vars

(* The launcher collects at every boundary of a tick, and a process that is  *)
(* not killed goes on.                                                       *)
FairSpec ==
  /\ Spec
  /\ \A c \in Collecting : WF_vars(Collect(c))
  /\ \A c \in Collector : WF_vars(Step(c))

-----------------------------------------------------------------------------
(* Types of the files, and of what they hold.                                *)
TypeOK ==
  /\ source \in [present : BOOLEAN, gen : Gen, lines : 0 .. Len(Line), begun : BOOLEAN]
  /\ Range(ledger) \subseteq EventSet
  /\ tail \in {"whole", "torn", "bare", "glued"}
  /\ {cursor, temp} \subseteq CursorValue \union {None}
  /\ \A r \in Run : records[r] # None => /\ Range(records[r].calls) \subseteq EventSet
                                         /\ records[r].boundary \in 0 .. Len(Line)
  /\ \A c \in Collector : col[c].end \in 0 .. Len(Line) /\ Range(col[c].new) \subseteq EventSet
  /\ solo \in BOOLEAN /\ kills \in 0 .. MaxKills

Collected(gen, offset) == Range(Events(gen, 0, offset))

(* However processes overlap and are killed, the cursor never passes an      *)
(* event that is not in the ledger, unless a line of the ledger has become   *)
(* malformed, which every later collection reports.                          *)
NothingSkipped ==
  cursor # None /\ tail # "glued" => Collected(cursor.prefix, cursor.offset) \subseteq Range(ledger)

(* Processes that do not overlap enter each event once, although a killed    *)
(* one has left events behind the cursor.                                    *)
OncePerEvent == solo => IsInjective(ledger)

(* Processes that do not overlap base an admission on no reading older than  *)
(* the last one in the lines that were read for it.                          *)
LatestReading ==
  \A c \in Collector : solo /\ At(c, "admission") =>
    \A e \in Collected(source.gen, col[c].end) :
      e.type = "allowance" /\ e \in Range(ledger)
        => /\ col[c].value.reading # None
           /\ col[c].value.reading.gen = e.gen => col[c].value.reading.line >= e.line

(* What the cursor, the ledger and an admission say of the source goes       *)
(* together.                                                                 *)
CollectionInv == TypeOK /\ NothingSkipped /\ LatestReading

(* The record of a run counts each call of its turns within its source       *)
(* boundary once, and none twice, when processes do not overlap.             *)
RecordExact ==
  \A r \in Run : solo /\ records[r] # None /\ records[r].linked /\ tail # "glued" =>
    /\ IsInjective(records[r].calls)
    /\ source.gen = 1 => Range(records[r].calls) =
         {e \in Collected(1, records[r].boundary) : e.type = "tokens" /\ e.line \in Turns[r]}

(* The calls counted for a run never become fewer; and where a later report  *)
(* counts more of the same turns than the completion did, its record says    *)
(* that it was reconciled, unless the report starts the run again.           *)
CallsKept ==
  \A r \in Run : solo' /\ records[r] # None =>
    Range(records[r].calls) \subseteq Range(records'[r].calls)
LateUsageTold ==
  \A r \in Run :
    solo' /\ source.gen = 1 /\ records[r] # None /\ records[r].phase = "completion" /\ records[r].linked
      /\ records'[r].calls # records[r].calls /\ records'[r].phase # "start"
    => records'[r].finality = "provisional_after_reconciliation"
RecordsKept == [][CallsKept /\ LateUsageTold]_vars

=============================================================================
