-------------------------- MODULE UsageCollectionInv --------------------------
(***************************************************************************)
(* The inductive invariants of UsageCollection: what the lines of a source *)
(* measure as a set, what a cursor and a process answer for, and, as long  *)
(* as no two processes have overlapped, the order of the ledger and the    *)
(* contents of the records.                                                *)
(***************************************************************************)
EXTENDS UsageCollection

AdmissionValue ==
  [reading : EventSet \union {None}, status : {"missing", "stale", "current"}, admitted : BOOLEAN]

ColValue ==
  [pc : {"idle", "load", "source", "ids", "append", "cursor", "rename", "ledger", "admission", "record"},
   phase : {"manual", "start", "completion", "recovery"}, run : Run \union {None}, given : BOOLEAN,
   prior : RecordValue \union {None}, read : CursorValue, gen : Gen \union {None}, end : 0 .. Len(Line),
   new : Seq(EventSet), value : AdmissionValue \union {None}]

(* Type correctness. *)
TypeInv ==
  /\ source \in [present : BOOLEAN, gen : Gen, lines : 0 .. Len(Line), begun : BOOLEAN]
  /\ ledger \in Seq(EventSet)
  /\ tail \in {"whole", "torn", "bare", "glued"}
  /\ cursor \in CursorValue \union {None} /\ temp \in CursorValue \union {None}
  /\ records \in [Run -> RecordValue \union {None}]
  /\ col \in [Collector -> ColValue]
  /\ solo \in BOOLEAN /\ kills \in 0 .. MaxKills
  /\ \A c \in Collector : At(c, "record") => Reports(c) /\ col[c].phase # "manual"
  /\ \A c \in Collector : Reports(c) => col[c].phase # "manual"

(* The events that lines from + 1 to to of a file measure. *)
Measured(gen, from, to) ==
  {e \in EventSet : e.gen = gen /\ e.line \in from + 1 .. to /\ e.type \in Range(Parsed(e.line))}

(* Events in the order of their lines, within one file. *)
Ordered(events) ==
  \A i, j \in DOMAIN events : i < j /\ events[i].gen = events[j].gen => events[i].line =< events[j].line
Precede(events, others) ==
  \A d \in Range(events), e \in Range(others) : d.gen = e.gen => d.line =< e.line

Kept(gen, to) == tail # "glued" => Measured(gen, 0, to) \subseteq Range(ledger)

(* A position in the source that was read there, and whose events are kept.  *)
Within(gen, to) ==
  /\ gen = None => to = 0
  /\ gen # None => gen =< source.gen
  /\ gen = source.gen => to =< source.lines
CursorInv(v) == Within(v.prefix, v.offset) /\ Kept(v.prefix, v.offset)

SourceInv == ~source.present => source.gen = 1 /\ source.lines = 0

(* What a process has read of the source. *)
Holding(c) == col[c].pc \in {"ids", "append", "cursor"}
HeldInv(c) ==
  Holding(c) =>
    /\ col[c].read.prefix # None /\ col[c].gen # None => col[c].read.prefix = col[c].gen
    /\ col[c].read.offset =< col[c].end
    /\ Within(col[c].gen, col[c].end)

(* What it is about to append is a part of what it has read, in its order;   *)
(* all of the rest is in the ledger.                                         *)
AppendInv(c) ==
  At(c, "append") =>
    /\ IsInjective(col[c].new) /\ Ordered(col[c].new)
    /\ Range(col[c].new) \subseteq Measured(col[c].gen, 0, col[c].end)
    /\ tail # "glued" => Measured(col[c].gen, 0, col[c].end) \subseteq Range(ledger) \union Range(col[c].new)

(* After its append, all of the first file that a process has read is kept.  *)
Past(c) == col[c].pc \in {"cursor", "rename", "ledger", "admission", "record"}
PastInv(c) ==
  /\ At(c, "cursor") => Kept(col[c].gen, col[c].end)
  /\ Past(c) /\ source.gen = 1 => Kept(1, col[c].end)

(* The ledger holds what was measured, and of one file never a line without  *)
(* the lines before it.                                                      *)
LedgerInv ==
  /\ \A e \in Range(ledger) : e \in Measured(e.gen, 0, Len(Line)) /\ Within(e.gen, e.line)
  /\ \A e \in Range(ledger) : Kept(e.gen, e.line - 1)

ProcessInv(c) == CursorInv(col[c].read) /\ HeldInv(c) /\ AppendInv(c) /\ PastInv(c)

(* However processes overlap: behind NothingSkipped. *)
SharedInv ==
  /\ TypeInv
  /\ SourceInv
  /\ cursor # None => CursorInv(cursor)
  /\ temp # None => CursorInv(temp)
  /\ LedgerInv
  /\ \A c \in Collector : ProcessInv(c)

-----------------------------------------------------------------------------
(* The processes that run while no two have overlapped. *)
OneAtATime == \A c, d \in Collector : ~At(c, "idle") /\ ~At(d, "idle") => c = d

(* What a process is about to append comes after all that the ledger holds.  *)
SoloAppend(c) ==
  At(c, "append") => Range(ledger) \intersect Range(col[c].new) = {} /\ Precede(ledger, col[c].new)

(* What the ledger holds of the first file was read, up to its end, by the   *)
(* process that is running.                                                  *)
SoloRead(c) ==
  (Holding(c) \/ Past(c)) /\ source.gen = 1 => \A e \in Range(ledger) : e.line =< col[c].end

SoloReading(c) ==
  At(c, "admission") =>
    \A e \in Range(ledger) : e.type = "allowance" =>
      /\ col[c].value.reading # None
      /\ col[c].value.reading.gen = e.gen => col[c].value.reading.line >= e.line

SoloPrior(c) == ~At(c, "idle") /\ Reports(c) => col[c].prior = records[col[c].run]

(* The calls of a run within a boundary. *)
CallsOf(r, boundary) ==
  {e \in EventSet : e.type = "tokens" /\ e.gen = 1 /\ e.line \in Turns[r] /\ e.line =< boundary}
Among(events, set) == Only(events, LAMBDA e : e \in set)

RecordInv(r) ==
  /\ IsInjective(records[r].calls)
  /\ records[r].calls # <<>> => records[r].linked
  /\ tail # "glued" =>
       /\ Range(records[r].calls) \subseteq Range(ledger) \intersect CallsOf(r, Len(Line))
       /\ records[r].linked /\ source.gen = 1 =>
            /\ Kept(1, records[r].boundary)
            /\ records[r].calls = Among(ledger, CallsOf(r, records[r].boundary))

(* As long as no two processes have overlapped: behind OncePerEvent,         *)
(* LatestReading, RecordExact and RecordsKept.                               *)
SoloInv ==
  solo => /\ OneAtATime
          /\ IsInjective(ledger) /\ Ordered(ledger)
          /\ \A c \in Collector : SoloAppend(c) /\ SoloRead(c) /\ SoloReading(c) /\ SoloPrior(c)
          /\ \A r \in Run : records[r] # None => RecordInv(r)

UsageInv == SharedInv /\ SoloInv
=============================================================================
