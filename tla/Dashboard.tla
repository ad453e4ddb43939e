------------------------------ MODULE Dashboard ------------------------------
(***************************************************************************)
(* The merchant's dashboard over the payments: the figures, which the page *)
(* collects from six queries that run in any order while payments move,    *)
(* and the list, which is read a page at a time by a cursor.               *)
(***************************************************************************)
EXTENDS PaymentTable

CONSTANTS
  PageLimit,   \* parseLimitParam: DEFAULT_LIMIT
  Spans,       \* spans of creation times the figures are asked for
  Filters,     \* status filters a list is opened with; {} is none
  MaxMoves     \* bound

ASSUME DashboardAssumption == PageLimit \in Nat \ {0}

VARIABLES
  figures,  \* the request for the figures
  moved,    \* payments that appeared or moved since it began
  list      \* the list on the page

dashboardVars == <<tableVars, figures, moved, list>>

-----------------------------------------------------------------------------
(* GET /api/dashboard/stats and /api/dashboard/chart/daily *)

Counts == {"confirmed", "active", "expiredDb", "expiredVirtual", "failed"}
Queries == Counts \cup {"chart"}

NoFigures == [pc |-> "idle"]

\* The page asks for both with one span of creation dates; the route's now is
\* read before its first query.
AskFigures ==
  /\ figures.pc = "idle"
  /\ \E span \in Spans :
       figures' = [pc |-> "reading", at |-> clock, span |-> span, read |-> << >>]
  /\ moved' = 0
  /\ UNCHANGED <<tableVars, list>>

InSpan(row) == row.created \in figures.span

\* Mutant: a payment expires only after its last instant.
SelectsLate(q, row, at) ==
  CASE q \in {"confirmed", "chart"} -> row.status = "CONFIRMED"
    [] q = "active" -> /\ row.status \in ActiveStatuses
                       /\ row.deadline = NoDeadline \/ Open(row.deadline, at)
    [] q = "expiredDb" -> row.status = "EXPIRED"
    [] q = "expiredVirtual" -> row.status \in ActiveStatuses /\ Due(row.deadline + 1, at)
    [] q = "failed" -> row.status = "FAILED"

\* The where of each query.
Selects(q, row, at) ==
  CASE q \in {"confirmed", "chart"} -> row.status = "CONFIRMED"
    [] q = "active" -> /\ row.status \in ActiveStatuses
                       /\ row.deadline = NoDeadline \/ Open(row.deadline, at)
    [] q = "expiredDb" -> row.status = "EXPIRED"
    [] q = "expiredVirtual" -> row.status \in ActiveStatuses /\ Due(row.deadline, at)
    [] q = "failed" -> row.status = "FAILED"

RunQuery(q) ==
  /\ figures.pc = "reading"
  /\ q \notin DOMAIN figures.read
  /\ LET n == Cardinality({i \in DOMAIN rows : /\ InSpan(rows[i])
                                               /\ Selects(q, rows[i], figures.at)})
     IN figures' = [figures EXCEPT !.read =
                      [k \in DOMAIN @ \cup {q} |-> IF k = q THEN n ELSE @[k]]]
  /\ UNCHANGED <<tableVars, moved, list>>

\* The page is rendered with the figures, or with dashes if a fetch failed. The
\* next request is one like it, so one is followed.
ShowFigures ==
  /\ figures.pc = "reading"
  /\ figures' = [pc |-> "shown"]
  /\ moved' = 0
  /\ UNCHANGED <<tableVars, list>>

-----------------------------------------------------------------------------
(* GET /api/payments, the first page and "load more" *)

\* The rows a query finds, from the cursor on when there is one, the newest first.
Matching(wanted, cursor) ==
  {n \in DOMAIN rows :
     /\ wanted # {} => StatusWhere(wanted, rows[n].status, rows[n].deadline, clock)
     /\ cursor # 0 => n <= cursor}

Descending(S) ==
  [i \in 1 .. Cardinality(S) |-> CHOOSE n \in S : Cardinality({m \in S : m > n}) = i - 1]

\* skip and take: one more than the page holds.
Taken(wanted, cursor) ==
  LET found == Descending(Matching(wanted, cursor))
      skip == IF cursor = 0 THEN 0 ELSE 1
  IN [i \in {j \in 1 .. PageLimit + 1 : skip + j <= Len(found)} |-> found[skip + i]]

\* Mutant: the cursor is the row that showed there is more.
NextCursorIsTheExtra(taken) == IF Len(taken) > PageLimit THEN taken[PageLimit + 1] ELSE 0

NextCursor(taken) == IF Len(taken) > PageLimit THEN taken[PageLimit] ELSE 0

PageOf(taken) == IF Len(taken) > PageLimit THEN SubSeq(taken, 1, PageLimit) ELSE taken

\* The page is opened, or another filter makes another list of it.
OpenList ==
  /\ \E wanted \in Filters :
       LET taken == Taken(wanted, 0)
       IN list' = [wanted |-> wanted, items |-> PageOf(taken), next |-> NextCursor(taken)]
  /\ UNCHANGED <<tableVars, figures, moved>>

\* loadMore, one at a time; a failing one changes nothing.
LoadMore ==
  LET taken == Taken(list.wanted, list.next)
  IN /\ list.next # 0
     /\ list' = [list EXCEPT !.items = @ \o PageOf(taken), !.next = NextCursor(taken)]
     /\ UNCHANGED <<tableVars, figures, moved>>

-----------------------------------------------------------------------------

InitDashboard ==
  /\ InitTable
  /\ figures = NoFigures
  /\ moved = 0
  /\ list = [wanted |-> {}, items |-> << >>, next |-> 0]

PaymentsMove ==
  /\ CreatePayment \/ \E n \in DOMAIN rows : MovePayment(n)
  /\ figures.pc # "shown"
  /\ moved' = IF figures.pc = "reading" THEN moved + 1 ELSE 0
  /\ moved' <= MaxMoves
  /\ UNCHANGED <<figures, list>>

NextFigures == \/ AskFigures \/ \E q \in Queries : RunQuery(q)
               \/ ShowFigures
               \/ PaymentsMove
               \/ ClockTicks /\ UNCHANGED <<figures, moved, list>>

NextList == \/ OpenList \/ LoadMore
            \/ PaymentsMove
            \/ ClockTicks /\ UNCHANGED <<figures, moved, list>>

SpecDashboard == InitDashboard /\ [][NextFigures \/ NextList]_dashboardVars

-----------------------------------------------------------------------------
(* Properties *)

Figure(q) == figures.read[q]

\* The payments of the span the API shows with one of the statuses.
ShownAs(S) == Cardinality({n \in DOMAIN rows : InSpan(rows[n]) /\ Shown(n, figures.at) \in S})

\* The five counts put every payment in one class, so that what is wrong with
\* their sum is the payments that moved between the queries, one for each move
\* at most; when none did, they are what the list shows, and the chart agrees.
FiguresErrOnlyByMoves ==
  figures.pc = "reading" /\ DOMAIN figures.read = Queries =>
    LET total == Figure("confirmed") + Figure("active") + Figure("expiredDb")
                   + Figure("expiredVirtual") + Figure("failed")
        started == Cardinality({n \in DOMAIN rows : InSpan(rows[n])})
    IN /\ total <= started + moved
       /\ started <= total + moved
       /\ moved = 0 =>
            /\ Figure("confirmed") = ShownAs({"CONFIRMED"})
            /\ Figure("active") = ShownAs(ActiveStatuses)
            /\ Figure("expiredDb") + Figure("expiredVirtual") = ShownAs({"EXPIRED"})
            /\ Figure("chart") = Figure("confirmed")

\* However many payments appear or move between two pages, the list shows each
\* once, the newest first; unfiltered it leaves none out, and it ends at the first.
ListHasNoGaps ==
  /\ \A i \in 2 .. Len(list.items) : list.items[i] < list.items[i - 1]
  /\ list.wanted = {} /\ list.items # << >> =>
       /\ \A i \in 2 .. Len(list.items) : list.items[i] = list.items[i - 1] - 1
       /\ list.next = 0 => list.items[Len(list.items)] = 1

=============================================================================
