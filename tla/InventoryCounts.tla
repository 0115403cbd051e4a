--------------------------- MODULE InventoryCounts ---------------------------
(***************************************************************************)
(* Physical counts of a location (domain/inventory/entities.InventoryCount *)
(* and application/inventory/count.py): who counts brings, per product,    *)
(* the quantity expected and the quantity found.                           *)
(***************************************************************************)
EXTENDS Integers, SequencesExt, FunctionUpdates

CONSTANTS
  CountIds,
  Products,
  MaxFigure,    \* bound: quantities counted
  MaxRecorded   \* bound: figures recorded in one count

ASSUME FiguresAssumption == MaxFigure \in Nat /\ MaxRecorded \in Nat

VARIABLES
  counts,     \* counts[c]: the count with id c, for every count created so far
  recorded    \* recorded[c]: all figures accepted for it, in order

countVars == <<counts, recorded>>

CountStatuses == {"IN_PROGRESS", "COMPLETED", "CANCELLED"}
CountLine == [product : Products, expected : 0..MaxFigure, physical : 0..MaxFigure]
Count == [status : CountStatuses, lines : Seq(CountLine)]

CountsTypeOK ==
  /\ counts \in [DOMAIN counts -> Count]
  /\ DOMAIN counts \subseteq CountIds
  /\ recorded \in [DOMAIN counts -> Seq(CountLine)]

CountsInit == counts = <<>> /\ recorded = <<>>

----------------------------------------------------------------------------
CreateInventoryCount(c) ==
  /\ c \in CountIds \ DOMAIN counts
  /\ counts' = With(counts, c, [status |-> "IN_PROGRESS", lines |-> <<>>])
  /\ recorded' = With(recorded, c, <<>>)

EnsureInProgress(c) == c \in DOMAIN counts /\ counts[c].status = "IN_PROGRESS"

\* The lines of the other products, in their order.
OtherLines(lines, product) ==
  FoldLeft(LAMBDA kept, existing :
             IF existing.product = product THEN kept ELSE Append(kept, existing),
           <<>>, lines)

\* Mutant of WithFigures: a product counted again gets another line.
WithMoreFigures(lines, line) == Append(lines, line)

\* Mutant of WithFigures: the variance is kept in place of what was found.
WithVariance(lines, line) ==
  Append(OtherLines(lines, line.product), [line EXCEPT !.physical = @ - line.expected])

WithFigures(lines, line) == Append(OtherLines(lines, line.product), line)

RecordInventoryCountLine(c, line) ==
  /\ EnsureInProgress(c)
  /\ Len(recorded[c]) < MaxRecorded
  /\ counts' = [counts EXCEPT ![c].lines = WithFigures(@, line)]
  /\ recorded' = [recorded EXCEPT ![c] = Append(@, line)]

EndCount(c, status) ==
  /\ EnsureInProgress(c)
  /\ counts' = [counts EXCEPT ![c].status = status]
  /\ UNCHANGED recorded

CompleteInventoryCount(c) == EndCount(c, "COMPLETED")
CancelInventoryCount(c)   == EndCount(c, "CANCELLED")

CountsNext ==
  \/ \E c \in CountIds : CreateInventoryCount(c)
  \/ \E c \in CountIds, line \in CountLine : RecordInventoryCountLine(c, line)
  \/ \E c \in CountIds : CompleteInventoryCount(c)
  \/ \E c \in CountIds : CancelInventoryCount(c)

CountsSpec == CountsInit /\ [][CountsNext]_countVars

----------------------------------------------------------------------------
(* Properties *)

\* The figures after which the same product was not counted again.
LastFigures(figures) ==
  {i \in DOMAIN figures :
     \A j \in DOMAIN figures : j > i => figures[j].product # figures[i].product}

\* The variances of a count are those of the figures found last: one line for
\* each product counted, in any order of counting and recounting, so that their
\* sum is the difference between what was found and what was expected.
LastFiguresCount ==
  \A c \in DOMAIN counts :
    LET figures == recorded[c]
        lines   == counts[c].lines
    IN  /\ Len(lines) = Cardinality(LastFigures(figures))
        /\ Range(lines) = {figures[i] : i \in LastFigures(figures)}

=============================================================================
