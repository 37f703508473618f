----------------------------- MODULE Timestamps -----------------------------
(***************************************************************************)
(* app/timeutils.py and what leans on it: timestamps are stored and        *)
(* compared as text, by SQLite and by Python, where the other modules of   *)
(* this development write naturals.  Events arrive with or without an      *)
(* offset; lists are asked for windows of bare dates and full timestamps;  *)
(* the discrepancy report computes a staleness cutoff.                     *)
(*                                                                         *)
(* The calendar is scaled down: a year has DaysPerYear days, a day         *)
(* HoursPerDay hours, an hour MicrosPerHour microseconds, and years are    *)
(* written with two digits instead of four.  A text is the sequence of its *)
(* fields and of the separators that decide a comparison; every field      *)
(* after the year is padded to its width and compares like a number.       *)
(***************************************************************************)
EXTENDS Integers, Sequences, FiniteSets

CONSTANTS
  DaysPerYear, HoursPerDay, MicrosPerHour,   (* the calendar               *)
  MaxYear,    (* datetime.MAXYEAR; the first year is 1                     *)
  Stamps,     (* timestamps clients write; their offset is NULL if naive   *)
  Bounds,     (* date_from and date_to values: a date, a stamp or rubbish  *)
  AsOfs,      (* as_of values: stamps                                      *)
  Windows,    (* stale_after_hours values: at most a year of hours         *)
  NULL,
  MaxRows     (* bound: events stored in a behaviour                       *)

Written == [year: 1..MaxYear, day: 0..(DaysPerYear - 1), hour: 0..(HoursPerDay - 1),
            micro: 0..(MicrosPerHour - 1), offset: Int \cup {NULL}]

ASSUME CalendarAssumption ==
  /\ {DaysPerYear, HoursPerDay, MicrosPerHour} \subseteq Nat \ {0}
  /\ MaxYear \in 10..99
ASSUME InputsAssumption ==
  /\ Stamps \cup AsOfs \subseteq Written
  /\ Windows \subseteq 0..(DaysPerYear * HoursPerDay)
  /\ MaxRows \in Nat
  /\ \A b \in Bounds : \/ b.kind = "stamp" /\ b.stamp \in Written
                       \/ b.kind = "date" /\ b.stamp \in Written /\ b.stamp.offset = NULL
                       \/ b.kind = "rubbish"

VARIABLES
  rows,    (* stored events: the text, and history: the instant it means   *)
  reply    (* the last answer, with the request it answers                 *)

vars == <<rows, reply>>

-----------------------------------------------------------------------------
(* Instants count microseconds; these are the true ones.                   *)
DayLength == HoursPerDay * MicrosPerHour
YearLength == DaysPerYear * DayLength

Local(ts) ==
  ts.year * YearLength + ts.day * DayLength + ts.hour * MicrosPerHour + ts.micro

Instant(ts) ==
  Local(ts) - (IF ts.offset = NULL THEN 0 ELSE ts.offset * MicrosPerHour)

(* What a datetime can hold; outside, arithmetic raises OverflowError.     *)
Representable(n) == n >= YearLength /\ n < (MaxYear + 1) * YearLength

(* Fault variant: UTC attached to every datetime, offset or not.           *)
ToUtc_Replaces(ts) == Local(ts)

(* to_utc: a naive datetime is UTC already.                                *)
ToUtc(ts) == IF ts.offset = NULL THEN Local(ts) ELSE Local(ts) - ts.offset * MicrosPerHour

-----------------------------------------------------------------------------
(* Texts.  "-" sorts before every digit and "T" after.                     *)
Dash == -1
Tee == 100

(* strftime's %Y does not pad; what a client writes as YYYY does.          *)
YearText(y) == IF y < 10 THEN <<y>> ELSE <<y \div 10, y % 10>>
Padded(y) == <<y \div 10, y % 10>>

FormatTs(n) ==
  YearText(n \div YearLength)
    \o <<Dash, (n \div DayLength) % DaysPerYear, Tee,
         (n \div MicrosPerHour) % HoursPerDay, n % MicrosPerHour>>

(* fromisoformat reads its own format back only if the year is padded.     *)
Readable(n) == n \div YearLength >= 10

DateText(d) == Padded(d.year) \o <<Dash, d.day>>

(* The generated column txn_date: substr(first_event_at, 1, 10).           *)
TxnDate(text) == SubSeq(text, 1, 4)

(* Lexicographic order: the first difference decides, or a proper prefix.  *)
TextBefore(a, b) ==
  \E n \in 0..Len(a) :
    /\ n < Len(b)
    /\ \A i \in 1..n : a[i] = b[i]
    /\ n = Len(a) \/ a[n + 1] < b[n + 1]

AtMost(a, b) == a = b \/ TextBefore(a, b)

(* range_lower_bound and range_upper_bound.                                *)
LowerBound(b) ==
  IF b.kind = "date" THEN DateText(b.stamp) \o <<Tee, 0, 0>> ELSE FormatTs(ToUtc(b.stamp))

(* Fault variant: the last day ends with its last whole second.            *)
UpperBound_WholeSecond(b) ==
  IF b.kind = "date" THEN DateText(b.stamp) \o <<Tee, HoursPerDay - 1, 0>>
  ELSE FormatTs(ToUtc(b.stamp))

UpperBound(b) ==
  IF b.kind = "date" THEN DateText(b.stamp) \o <<Tee, HoursPerDay - 1, MicrosPerHour - 1>>
  ELSE FormatTs(ToUtc(b.stamp))

(* The status a timestamp or a bound is refused with; 0 if it is accepted. *)
(* An OverflowError is not a ValueError, so nobody turns it into a 422.    *)
StampRefusal(ts) == IF Representable(ToUtc(ts)) THEN 0 ELSE 500
BoundRefusal(b) ==
  IF b.kind = "rubbish" THEN 422 ELSE IF b.kind = "date" THEN 0 ELSE StampRefusal(b.stamp)

-----------------------------------------------------------------------------
NoReply == [op |-> "none", code |-> 0]

Init == rows = {} /\ reply = NoReply

(* EventIn normalises the timestamp of an event before it is stored.       *)
Post(ts) ==
  \/ /\ StampRefusal(ts) = 0
     /\ Cardinality(rows) < MaxRows
     /\ rows' = rows \cup {[at |-> Instant(ts), text |-> FormatTs(ToUtc(ts))]}
     /\ reply' = [op |-> "post", code |-> 201]
  \/ /\ StampRefusal(ts) # 0
     /\ reply' = [op |-> "post", code |-> StampRefusal(ts)]
     /\ UNCHANGED rows

(* A list asked for with both bounds: a missing one adds no condition.     *)
(* The bounds are resolved in turn; then all lists but GET /events refuse  *)
(* a range that ends before it starts.                                     *)
WindowRefusal(endpoint, lo, hi) ==
  IF BoundRefusal(lo) # 0 THEN BoundRefusal(lo)
  ELSE IF BoundRefusal(hi) # 0 THEN BoundRefusal(hi)
  ELSE IF endpoint # "events" /\ TextBefore(UpperBound(hi), LowerBound(lo)) THEN 422 ELSE 0

List(endpoint, lo, hi) ==
  /\ reply' = LET refusal == WindowRefusal(endpoint, lo, hi)
              IN [op |-> "list", endpoint |-> endpoint, lo |-> lo, hi |-> hi,
                  code |-> IF refusal = 0 THEN 200 ELSE refusal,
                  items |-> IF refusal # 0 THEN {}
                            ELSE {r \in rows : /\ AtMost(LowerBound(lo), r.text)
                                               /\ AtMost(r.text, UpperBound(hi))}]
  /\ UNCHANGED rows

(* The discrepancy report writes as_of down, reads it back and goes back   *)
(* stale_after_hours from there.  A short year is not read back, and       *)
(* nobody catches the error.                                               *)
ReportRefusal(as_of) ==
  IF StampRefusal(as_of) # 0 THEN StampRefusal(as_of)
  ELSE IF ~ Readable(ToUtc(as_of)) THEN 500 ELSE 0

Report(as_of, hours) ==
  /\ reply' = LET refusal == ReportRefusal(as_of)
                  cutoff == ToUtc(as_of) - hours * MicrosPerHour
              IN [op |-> "report", as_of |-> as_of, hours |-> hours,
                  code |-> IF refusal = 0 THEN 200 ELSE refusal,
                  items |-> IF refusal # 0 THEN {}
                            ELSE {r \in rows : TextBefore(r.text, FormatTs(cutoff))}]
  /\ UNCHANGED rows

Next ==
  \/ \E ts \in Stamps : Post(ts)
  \/ \E endpoint \in {"transactions", "events"}, lo, hi \in Bounds : List(endpoint, lo, hi)
  \/ \E as_of \in AsOfs, hours \in Windows : Report(as_of, hours)

Spec == Init /\ [][Next]_vars

-----------------------------------------------------------------------------
(* Instants whose year is written in full.                                 *)
FullWidth(n) == n >= 10 * YearLength /\ Representable(n)

(* "Fixed width matters" (timeutils.py:7-12): stored texts compare as the  *)
(* instants they stand for, whatever offset each event was sent with, and  *)
(* one instant has one text.                                               *)
TextOrderIsTimeOrder ==
  \A r, s \in rows :
    FullWidth(r.at) /\ FullWidth(s.at) =>
      /\ TextBefore(r.text, s.text) <=> r.at < s.at
      /\ r.text = s.text <=> r.at = s.at

(* The first and the last instant a bound covers.                          *)
FirstOf(b) == IF b.kind = "stamp" THEN Instant(b.stamp)
              ELSE b.stamp.year * YearLength + b.stamp.day * DayLength
LastOf(b) == IF b.kind = "stamp" THEN Instant(b.stamp) ELSE FirstOf(b) + DayLength - 1

(* A date range is inclusive at both ends, down to the last microsecond of *)
(* its last day and for bounds given with an offset; it is refused as      *)
(* reversed exactly when no instant lies in it (range_lower_bound,         *)
(* range_upper_bound and their callers).                                   *)
WindowIsExact ==
  reply.op = "list" =>
    LET lo == reply.lo
        hi == reply.hi
    IN lo.kind # "rubbish" /\ hi.kind # "rubbish" =>
       (FullWidth(FirstOf(lo)) /\ FullWidth(LastOf(hi)) =>
          /\ reply.code = 422 <=> reply.endpoint # "events" /\ FirstOf(lo) > LastOf(hi)
          /\ reply.code = 200 =>
               \A r \in rows : FullWidth(r.at) =>
                 (r \in reply.items <=> FirstOf(lo) <= r.at /\ r.at <= LastOf(hi)))

(* A summary grouped by date can be opened up: the transactions of a group *)
(* are those a list from that date to that date returns (schema.sql's      *)
(* txn_date against the suffixes of the range filters).                    *)
DateGroupsAreDateWindows ==
  \A r \in rows : \A b \in {x \in Bounds : x.kind = "date"} :
    TxnDate(r.text) = DateText(b.stamp) <=>
      AtMost(LowerBound(b), r.text) /\ AtMost(r.text, UpperBound(b))

(* What a report calls stale is what happened more than stale_after_hours  *)
(* before as_of, whatever offsets the two were written with                *)
(* (get_discrepancies' cutoff).                                            *)
StaleIsOlder ==
  reply.op = "report" /\ reply.code = 200 =>
    LET cutoff == Instant(reply.as_of) - reply.hours * MicrosPerHour
    IN FullWidth(cutoff) =>
         \A r \in rows : FullWidth(r.at) => (r \in reply.items <=> r.at < cutoff)
=============================================================================
