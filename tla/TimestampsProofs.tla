-------------------------- MODULE TimestampsProofs --------------------------
(***************************************************************************)
(* Comparing texts is comparing instants, for every calendar of years of   *)
(* equal length, whatever is stored and whatever is asked.                 *)
(*                                                                         *)
(* An instant is a number in mixed radix and its text lists the digits,    *)
(* most significant first, between separators that never differ.  So the   *)
(* proof is in three layers: division with remainder (Split: numbers       *)
(* compare like quotients, then like remainders), the fields of an instant *)
(* (Earlier: Split three times) and texts (TextOrder: the first difference *)
(* decides; PaddedOrder joins the two).  The bounds of a window are texts  *)
(* of instants as well (BoundIs), and WInv says that rows hold the texts   *)
(* of theirs.                                                              *)
(***************************************************************************)
EXTENDS Timestamps, SequenceTheorems, TLAPS

(* The multiples of c are at least c apart.                                *)
LEMMA Ordered ==
  ASSUME NEW c \in Nat, NEW p \in Int, NEW q \in Int, p < q
  PROVE  c * p \in Int /\ c * q \in Int /\ c * p + c <= c * q
<1>1. PICK k \in Nat : q = p + 1 + k
  <2>1. q - p - 1 \in Nat /\ q = p + 1 + (q - p - 1)
    OBVIOUS
  <2> QED  BY <2>1
<1>2. c * k \in Nat /\ c * p \in Int
  OBVIOUS
<1>3. c * (p + 1 + k) = c * p + c + c * k
  OBVIOUS
<1> QED  BY <1>1, <1>2, <1>3

(* Division with remainder.                                                *)
LEMMA Quotient ==
  ASSUME NEW c \in Nat \ {0}, NEW n \in Int
  PROVE  /\ n \div c \in Int /\ n % c \in 0..(c - 1)
         /\ n = c * (n \div c) + (n % c)
OBVIOUS

(* There is only one way to divide with remainder.                         *)
LEMMA QuotientIs ==
  ASSUME NEW c \in Nat \ {0}, NEW q \in Int, NEW r \in 0..(c - 1), NEW n \in Int, n = c * q + r
  PROVE  n \div c = q /\ n % c = r
<1> DEFINE p == n \div c
           s == n % c
<1>1. p \in Int /\ s \in 0..(c - 1) /\ n = c * p + s
  BY Quotient
<1> HIDE DEF p, s
<1>2. c * p \in Int /\ c * q \in Int
  BY <1>1
<1>3. ~ (p < q)
  <2> SUFFICES ASSUME p < q PROVE FALSE
    OBVIOUS
  <2>1. c * p + c <= c * q
    BY <1>1, Ordered
  <2> QED  BY <1>1, <1>2, <2>1
<1>4. ~ (q < p)
  <2> SUFFICES ASSUME q < p PROVE FALSE
    OBVIOUS
  <2>1. c * q + c <= c * p
    BY <1>1, Ordered
  <2> QED  BY <1>1, <1>2, <2>1
<1>5. p = q
  BY <1>1, <1>3, <1>4
<1> QED  BY <1>1, <1>2, <1>5 DEF p, s

(* Dividing twice is dividing by the product.                              *)
LEMMA QuotientOfQuotient ==
  ASSUME NEW c \in Nat \ {0}, NEW d \in Nat \ {0}, NEW n \in Int
  PROVE  n \div (d * c) = (n \div c) \div d
<1> DEFINE q == n \div c
           r == n % c
           p == q \div d
           s == q % d
<1>1. q \in Int /\ r \in 0..(c - 1) /\ n = c * q + r
  BY Quotient
<1> HIDE DEF q, r
<1>2. p \in Int /\ s \in 0..(d - 1) /\ q = d * p + s
  BY <1>1, Quotient
<1> HIDE DEF p, s
<1>3. d * c \in Nat \ {0}
  OBVIOUS
<1>4. c * s \in Nat /\ c * s + c <= c * d
  <2>1. s < d /\ s \in Nat /\ c \in Nat /\ d \in Int
    BY <1>2
  <2> QED  BY <2>1, Ordered
<1>5. c * d = d * c
  OBVIOUS
<1>6. c * s + r \in 0..(d * c - 1)
  BY <1>1, <1>4, <1>5, <1>3
<1>7. n = (d * c) * p + (c * s + r)
  <2>1. c * (d * p + s) = (d * c) * p + c * s
    BY <1>2
  <2> QED  BY <1>1, <1>2, <2>1
<1>8. n \div (d * c) = p
  BY <1>2, <1>3, <1>6, <1>7, QuotientIs
<1> QED  BY <1>8 DEF p, q

(* Numbers compare like their quotients, and within one quotient like      *)
(* their remainders.                                                       *)
LEMMA Split ==
  ASSUME NEW c \in Nat \ {0}, NEW a \in Int, NEW b \in Int
  PROVE  /\ a < b <=> \/ a \div c < b \div c
                      \/ a \div c = b \div c /\ a % c < b % c
         /\ a = b <=> a \div c = b \div c /\ a % c = b % c
<1> DEFINE p == a \div c
           q == b \div c
           r == a % c
           s == b % c
<1>1. p \in Int /\ r \in 0..(c - 1) /\ a = c * p + r
  BY Quotient
<1>2. q \in Int /\ s \in 0..(c - 1) /\ b = c * q + s
  BY Quotient
<1> HIDE DEF p, q, r, s
<1>3. CASE p = q
  <2>1. c * p = c * q /\ c * p \in Int
    BY <1>1, <1>3
  <2> QED  BY <1>1, <1>2, <1>3, <2>1 DEF p, q, r, s
<1>4. CASE p < q
  <2>1. c * p \in Int /\ c * q \in Int /\ c * p + c <= c * q
    BY <1>1, <1>2, <1>4, Ordered
  <2>2. a < b /\ a # b
    BY <1>1, <1>2, <2>1
  <2> QED  BY <1>1, <1>2, <1>4, <2>2 DEF p, q, r, s
<1>5. CASE q < p
  <2>1. c * p \in Int /\ c * q \in Int /\ c * q + c <= c * p
    BY <1>1, <1>2, <1>5, Ordered
  <2>2. b < a /\ a # b
    BY <1>1, <1>2, <2>1
  <2> QED  BY <1>1, <1>2, <1>5, <2>2 DEF p, q, r, s
<1> QED  BY <1>1, <1>2, <1>3, <1>4, <1>5

-----------------------------------------------------------------------------
(* The fields of an instant.                                               *)
YearOf(n) == n \div YearLength
DayOf(n) == (n \div DayLength) % DaysPerYear
HourOf(n) == (n \div MicrosPerHour) % HoursPerDay
MicroOf(n) == n % MicrosPerHour

(* The lengths of the calendar's units are positive.                       *)
LEMMA Calendar ==
  /\ DaysPerYear \in Nat \ {0} /\ HoursPerDay \in Nat \ {0} /\ MicrosPerHour \in Nat \ {0}
  /\ DayLength \in Nat \ {0} /\ YearLength \in Nat \ {0}
  /\ MaxYear \in 10..99
<1>1. /\ DaysPerYear \in Nat \ {0} /\ HoursPerDay \in Nat \ {0} /\ MicrosPerHour \in Nat \ {0}
      /\ MaxYear \in 10..99
  BY CalendarAssumption
<1>2. DayLength \in Nat \ {0}
  BY <1>1 DEF DayLength
<1>3. YearLength \in Nat \ {0}
  BY <1>1, <1>2 DEF YearLength
<1> QED  BY <1>1, <1>2, <1>3

(* Every field stays within its unit.                                      *)
LEMMA FieldTypes ==
  ASSUME NEW n \in Int
  PROVE  /\ YearOf(n) \in Int /\ DayOf(n) \in 0..(DaysPerYear - 1)
         /\ HourOf(n) \in 0..(HoursPerDay - 1) /\ MicroOf(n) \in 0..(MicrosPerHour - 1)
<1>1. n \div DayLength \in Int /\ n \div MicrosPerHour \in Int /\ n \div YearLength \in Int
  BY Calendar, Quotient
<1> QED  BY <1>1, Calendar, Quotient DEF YearOf, DayOf, HourOf, MicroOf

(* Instants compare by year, then day, then hour, then microsecond: the    *)
(* order in which FormatTs writes the fields down.                         *)
LEMMA Earlier ==
  ASSUME NEW a \in Int, NEW b \in Int
  PROVE  /\ a < b <=> \/ YearOf(a) < YearOf(b)
                      \/ YearOf(a) = YearOf(b) /\ DayOf(a) < DayOf(b)
                      \/ YearOf(a) = YearOf(b) /\ DayOf(a) = DayOf(b) /\ HourOf(a) < HourOf(b)
                      \/ /\ YearOf(a) = YearOf(b) /\ DayOf(a) = DayOf(b)
                         /\ HourOf(a) = HourOf(b) /\ MicroOf(a) < MicroOf(b)
         /\ a = b <=> /\ YearOf(a) = YearOf(b) /\ DayOf(a) = DayOf(b)
                      /\ HourOf(a) = HourOf(b) /\ MicroOf(a) = MicroOf(b)
<1> DEFINE hour(n) == n \div MicrosPerHour
           day(n) == hour(n) \div HoursPerDay
<1>1. \A n \in Int : hour(n) \in Int /\ day(n) \in Int
  <2> TAKE n \in Int
  <2>1. hour(n) \in Int
    BY Calendar, Quotient
  <2> QED  BY <2>1, Calendar, Quotient
<1>2. \A n \in Int : n \div DayLength = day(n)
  BY Calendar, QuotientOfQuotient DEF DayLength
<1>3. \A n \in Int : n \div YearLength = day(n) \div DaysPerYear
  <2> TAKE n \in Int
  <2>1. n \div (DaysPerYear * DayLength) = (n \div DayLength) \div DaysPerYear
    BY Calendar, QuotientOfQuotient
  <2> QED  BY <1>2, <2>1 DEF YearLength
<1>4. \A n \in {a, b} : /\ YearOf(n) = day(n) \div DaysPerYear
                        /\ DayOf(n) = day(n) % DaysPerYear
                        /\ HourOf(n) = hour(n) % HoursPerDay
  BY <1>2, <1>3 DEF YearOf, DayOf, HourOf
<1>5. /\ a < b <=> hour(a) < hour(b) \/ (hour(a) = hour(b) /\ MicroOf(a) < MicroOf(b))
      /\ a = b <=> hour(a) = hour(b) /\ MicroOf(a) = MicroOf(b)
  BY Calendar, Split DEF MicroOf
<1>6. /\ hour(a) < hour(b) <=> day(a) < day(b) \/ (day(a) = day(b) /\ HourOf(a) < HourOf(b))
      /\ hour(a) = hour(b) <=> day(a) = day(b) /\ HourOf(a) = HourOf(b)
  <2>1. hour(a) \in Int /\ hour(b) \in Int
    BY <1>1
  <2>2. HourOf(a) = hour(a) % HoursPerDay /\ HourOf(b) = hour(b) % HoursPerDay
    BY <1>4
  <2> HIDE DEF hour
  <2> QED  BY <2>1, <2>2, Calendar, Split
<1> HIDE DEF day
<1>7. /\ day(a) < day(b) <=> YearOf(a) < YearOf(b) \/ (YearOf(a) = YearOf(b) /\ DayOf(a) < DayOf(b))
      /\ day(a) = day(b) <=> YearOf(a) = YearOf(b) /\ DayOf(a) = DayOf(b)
  BY <1>1, <1>4, Calendar, Split
<1> QED  BY <1>5, <1>6, <1>7

-----------------------------------------------------------------------------
(* Texts with a full year.                                                 *)
Text(y, d, h, u) == <<y \div 10, y % 10, Dash, d, Tee, h, u>>

(* A sequence that begins with s and goes on with t is their concatenation.*)
LEMMA JoinIs ==
  ASSUME NEW s \in Seq(Int), NEW t \in Seq(Int), NEW x \in Seq(Int),
         Len(x) = Len(s) + Len(t),
         \A i \in 1..Len(s) : x[i] = s[i],
         \A i \in 1..Len(t) : x[Len(s) + i] = t[i]
  PROVE  s \o t = x
<1>1. Len(s) \in Nat /\ Len(t) \in Nat
  BY LenProperties
<1>2. /\ s \o t \in Seq(Int) /\ Len(s \o t) = Len(x)
      /\ \A i \in 1..Len(x) : (s \o t)[i] = IF i <= Len(s) THEN s[i] ELSE t[i - Len(s)]
  BY ConcatProperties
<1>3. ASSUME NEW i \in 1..Len(x) PROVE (s \o t)[i] = x[i]
  <2>1. CASE i <= Len(s)
    BY <1>1, <1>2, <2>1
  <2>2. CASE ~ (i <= Len(s))
    <3>1. i - Len(s) \in 1..Len(t) /\ Len(s) + (i - Len(s)) = i
      BY <1>1, <2>2
    <3>2. x[Len(s) + (i - Len(s))] = t[i - Len(s)]
      BY <3>1
    <3> QED  BY <1>2, <2>2, <3>1, <3>2
  <2> QED  BY <2>1, <2>2
<1> QED  BY <1>2, <1>3, SeqEqual

(* A padded year and a day form a text of four elements, as the generated  *)
(* column txn_date does.                                                   *)
LEMMA DayText ==
  ASSUME NEW y \in Int, NEW d \in Int
  PROVE  Padded(y) \o <<Dash, d>> = <<y \div 10, y % 10, Dash, d>>
<1> DEFINE p == y \div 10
           q == y % 10
<1>1. p \in Int /\ q \in Int /\ Dash \in Int
  BY Quotient DEF Dash
<1>2. Padded(y) = <<p, q>>
  BY DEF Padded
<1> HIDE DEF p, q
<1>3. <<p, q>> \o <<Dash, d>> = <<p, q, Dash, d>>
  <2> DEFINE s == <<p, q>>
             t == <<Dash, d>>
             x == <<p, q, Dash, d>>
  <2>1. /\ s \in Seq(Int) /\ t \in Seq(Int) /\ x \in Seq(Int)
        /\ Len(s) = 2 /\ Len(t) = 2 /\ Len(x) = 4
    BY <1>1
  <2>2. \A i \in {1, 2} : x[i] = s[i]
    OBVIOUS
  <2>3. \A i \in {1, 2} : x[2 + i] = t[i]
    OBVIOUS
  <2> HIDE DEF s, t, x
  <2>4. 1..Len(s) = {1, 2} /\ 1..Len(t) = {1, 2}
    BY <2>1
  <2>5. /\ Len(x) = Len(s) + Len(t)
        /\ \A i \in 1..Len(s) : x[i] = s[i]
        /\ \A i \in 1..Len(t) : x[Len(s) + i] = t[i]
    BY <2>1, <2>2, <2>3, <2>4
  <2>6. s \o t = x
    BY <2>1, <2>5, JoinIs, Zenon
  <2> QED  BY <2>6 DEF s, t, x
<1> QED  BY <1>2, <1>3 DEF p, q

(* The texts FormatTs and the range bounds put together, element by        *)
(* element; the next three lemmas are its parts.                           *)
LEMMA TextIs ==
  ASSUME NEW y \in Int, NEW d \in Int, NEW h \in Int, NEW u \in Int
  PROVE  /\ Text(y, d, h, u) \in Seq(Int) /\ Len(Text(y, d, h, u)) = 7
         /\ Padded(y) \o <<Dash, d, Tee, h, u>> = Text(y, d, h, u)
         /\ (Padded(y) \o <<Dash, d>>) \o <<Tee, h, u>> = Text(y, d, h, u)
<1> DEFINE p == y \div 10
           q == y % 10
<1>1. p \in Int /\ q \in Int /\ Dash \in Int /\ Tee \in Int
  BY Quotient DEF Dash, Tee
<1>2. Text(y, d, h, u) = <<p, q, Dash, d, Tee, h, u>> /\ Padded(y) = <<p, q>>
  BY DEF Text, Padded
<1> HIDE DEF p, q
<1>3. <<p, q, Dash, d, Tee, h, u>> \in Seq(Int) /\ Len(<<p, q, Dash, d, Tee, h, u>>) = 7
  BY <1>1
<1>4. <<p, q>> \o <<Dash, d, Tee, h, u>> = <<p, q, Dash, d, Tee, h, u>>
  <2> DEFINE s == <<p, q>>
             t == <<Dash, d, Tee, h, u>>
             x == <<p, q, Dash, d, Tee, h, u>>
  <2>1. /\ s \in Seq(Int) /\ t \in Seq(Int) /\ x \in Seq(Int)
        /\ Len(s) = 2 /\ Len(t) = 5 /\ Len(x) = 7
    BY <1>1
  <2>2. \A i \in {1, 2} : x[i] = s[i]
    OBVIOUS
  <2>3. \A i \in {1, 2, 3, 4, 5} : x[2 + i] = t[i]
    OBVIOUS
  <2> HIDE DEF s, t, x
  <2>4. 1..Len(s) = {1, 2} /\ 1..Len(t) = {1, 2, 3, 4, 5}
    BY <2>1
  <2>5. /\ Len(x) = Len(s) + Len(t)
        /\ \A i \in 1..Len(s) : x[i] = s[i]
        /\ \A i \in 1..Len(t) : x[Len(s) + i] = t[i]
    BY <2>1, <2>2, <2>3, <2>4
  <2>6. s \o t = x
    BY <2>1, <2>5, JoinIs, Zenon
  <2> QED  BY <2>6 DEF s, t, x
<1>5. <<p, q>> \o <<Dash, d>> = <<p, q, Dash, d>>
  BY <1>2, DayText DEF p, q
<1>6. <<p, q, Dash, d>> \o <<Tee, h, u>> = <<p, q, Dash, d, Tee, h, u>>
  <2> DEFINE s == <<p, q, Dash, d>>
             t == <<Tee, h, u>>
             x == <<p, q, Dash, d, Tee, h, u>>
  <2>1. /\ s \in Seq(Int) /\ t \in Seq(Int) /\ x \in Seq(Int)
        /\ Len(s) = 4 /\ Len(t) = 3 /\ Len(x) = 7
    BY <1>1
  <2>2. \A i \in {1, 2, 3, 4} : x[i] = s[i]
    OBVIOUS
  <2>3. \A i \in {1, 2, 3} : x[4 + i] = t[i]
    OBVIOUS
  <2> HIDE DEF s, t, x
  <2>4. 1..Len(s) = {1, 2, 3, 4} /\ 1..Len(t) = {1, 2, 3}
    BY <2>1
  <2>5. /\ Len(x) = Len(s) + Len(t)
        /\ \A i \in 1..Len(s) : x[i] = s[i]
        /\ \A i \in 1..Len(t) : x[Len(s) + i] = t[i]
    BY <2>1, <2>2, <2>3, <2>4
  <2>6. s \o t = x
    BY <2>1, <2>5, JoinIs, Zenon
  <2> QED  BY <2>6 DEF s, t, x
<1> QED  BY <1>2, <1>3, <1>4, <1>5, <1>6

(* The type of a text.                                                     *)
LEMMA TextLength ==
  ASSUME NEW y \in Int, NEW d \in Int, NEW h \in Int, NEW u \in Int
  PROVE  Text(y, d, h, u) \in Seq(Int) /\ Len(Text(y, d, h, u)) = 7
BY TextIs, ZenonT(60)

(* A year joined to the rest, as FormatTs joins them.                      *)
LEMMA StampTextIs ==
  ASSUME NEW y \in Int, NEW d \in Int, NEW h \in Int, NEW u \in Int
  PROVE  Padded(y) \o <<Dash, d, Tee, h, u>> = Text(y, d, h, u)
BY TextIs, ZenonT(60)

(* A date joined to a time of day, as LowerBound and UpperBound join them. *)
LEMMA DateTextIs ==
  ASSUME NEW y \in Int, NEW d \in Int, NEW h \in Int, NEW u \in Int
  PROVE  (Padded(y) \o <<Dash, d>>) \o <<Tee, h, u>> = Text(y, d, h, u)
BY TextIs, ZenonT(60)

(* The first difference decides, and the separators never differ.          *)
LEMMA TextOrder ==
  ASSUME NEW a \in Seq(Int), NEW b \in Seq(Int), Len(a) = 7, Len(b) = 7,
         a[3] = b[3], a[5] = b[5]
  PROVE  TextBefore(a, b) <=>
           \/ a[1] < b[1]
           \/ a[1] = b[1] /\ a[2] < b[2]
           \/ a[1] = b[1] /\ a[2] = b[2] /\ a[4] < b[4]
           \/ a[1] = b[1] /\ a[2] = b[2] /\ a[4] = b[4] /\ a[6] < b[6]
           \/ a[1] = b[1] /\ a[2] = b[2] /\ a[4] = b[4] /\ a[6] = b[6] /\ a[7] < b[7]
<1> DEFINE Same(n) == \A i \in 1..n : a[i] = b[i]
<1>1. TextBefore(a, b) <=> \E n \in 0..6 : Same(n) /\ a[n + 1] < b[n + 1]
  BY DEF TextBefore
<1>2. (\E n \in 0..6 : Same(n) /\ a[n + 1] < b[n + 1]) <=>
        \/ Same(0) /\ a[1] < b[1]
        \/ Same(1) /\ a[2] < b[2]
        \/ Same(2) /\ a[3] < b[3]
        \/ Same(3) /\ a[4] < b[4]
        \/ Same(4) /\ a[5] < b[5]
        \/ Same(5) /\ a[6] < b[6]
        \/ Same(6) /\ a[7] < b[7]
  <2> HIDE DEF Same
  <2>1. 0..6 = {0, 1, 2, 3, 4, 5, 6}
    OBVIOUS
  <2> QED  BY <2>1
<1>3. /\ Same(0)
      /\ Same(1) <=> a[1] = b[1]
      /\ Same(2) <=> a[1] = b[1] /\ a[2] = b[2]
      /\ Same(3) <=> a[1] = b[1] /\ a[2] = b[2]
      /\ Same(4) <=> a[1] = b[1] /\ a[2] = b[2] /\ a[4] = b[4]
      /\ Same(5) <=> a[1] = b[1] /\ a[2] = b[2] /\ a[4] = b[4]
      /\ Same(6) <=> a[1] = b[1] /\ a[2] = b[2] /\ a[4] = b[4] /\ a[6] = b[6]
  <2>1. 1..0 = {} /\ 1..1 = {1} /\ 1..2 = {1, 2} /\ 1..3 = {1, 2, 3}
        /\ 1..4 = {1, 2, 3, 4} /\ 1..5 = {1, 2, 3, 4, 5} /\ 1..6 = {1, 2, 3, 4, 5, 6}
    OBVIOUS
  <2> QED  BY <2>1
<1>4. a[3] \in Int /\ a[5] \in Int
  <2>1. 3 \in 1..Len(a) /\ 5 \in 1..Len(a)
    OBVIOUS
  <2> QED  BY <2>1, ElementOfSeq
<1> HIDE DEF Same
<1> QED  BY <1>1, <1>2, <1>3, <1>4

PaddedText(n) == Text(YearOf(n), DayOf(n), HourOf(n), MicroOf(n))

(* Texts with padded years compare as the instants do.                     *)
LEMMA PaddedOrder ==
  ASSUME NEW a \in Int, NEW b \in Int
  PROVE  /\ TextBefore(PaddedText(a), PaddedText(b)) <=> a < b
         /\ PaddedText(a) = PaddedText(b) <=> a = b
         /\ AtMost(PaddedText(a), PaddedText(b)) <=> a <= b
<1>1. /\ TextBefore(PaddedText(a), PaddedText(b)) <=> a < b
      /\ PaddedText(a) = PaddedText(b) <=> a = b
  <2> DEFINE y == YearOf(a)
             d == DayOf(a)
             h == HourOf(a)
             u == MicroOf(a)
             z == YearOf(b)
             e == DayOf(b)
             i == HourOf(b)
             v == MicroOf(b)
  <2>1. /\ y \in Int /\ d \in Int /\ h \in Int /\ u \in Int
        /\ z \in Int /\ e \in Int /\ i \in Int /\ v \in Int
    BY FieldTypes
  <2>2. PaddedText(a) = Text(y, d, h, u) /\ PaddedText(b) = Text(z, e, i, v)
    BY DEF PaddedText
  <2>3. /\ a < b <=> \/ y < z
                     \/ y = z /\ d < e
                     \/ y = z /\ d = e /\ h < i
                     \/ y = z /\ d = e /\ h = i /\ u < v
        /\ a = b <=> y = z /\ d = e /\ h = i /\ u = v
    BY Earlier
  <2> HIDE DEF y, d, h, u, z, e, i, v
  <2> DEFINE s == Text(y, d, h, u)
             t == Text(z, e, i, v)
  <2>4. /\ s \in Seq(Int) /\ Len(s) = 7 /\ s[1] = y \div 10 /\ s[2] = y % 10 /\ s[3] = Dash
        /\ s[4] = d /\ s[5] = Tee /\ s[6] = h /\ s[7] = u
    BY <2>1, TextLength DEF Text
  <2>5. /\ t \in Seq(Int) /\ Len(t) = 7 /\ t[1] = z \div 10 /\ t[2] = z % 10 /\ t[3] = Dash
        /\ t[4] = e /\ t[5] = Tee /\ t[6] = i /\ t[7] = v
    BY <2>1, TextLength DEF Text
  <2>6. /\ y < z <=> \/ y \div 10 < z \div 10
                     \/ y \div 10 = z \div 10 /\ y % 10 < z % 10
        /\ y = z <=> y \div 10 = z \div 10 /\ y % 10 = z % 10
    BY <2>1, Split
  <2>7. s = t <=> /\ s[1] = t[1] /\ s[2] = t[2] /\ s[4] = t[4] /\ s[6] = t[6] /\ s[7] = t[7]
    BY DEF Text
  <2>8. PaddedText(a) = s /\ PaddedText(b) = t
    BY <2>2
  <2> HIDE DEF s, t
  <2>9. TextBefore(s, t) <=>
           \/ s[1] < t[1]
           \/ s[1] = t[1] /\ s[2] < t[2]
           \/ s[1] = t[1] /\ s[2] = t[2] /\ s[4] < t[4]
           \/ s[1] = t[1] /\ s[2] = t[2] /\ s[4] = t[4] /\ s[6] < t[6]
           \/ s[1] = t[1] /\ s[2] = t[2] /\ s[4] = t[4] /\ s[6] = t[6] /\ s[7] < t[7]
    BY <2>4, <2>5, TextOrder
  <2>10. (TextBefore(s, t) <=> a < b) /\ (s = t <=> a = b)
    BY <2>3, <2>4, <2>5, <2>6, <2>7, <2>9
  <2> QED  BY <2>8, <2>10
<1> QED  BY <1>1 DEF AtMost

(* An instant whose year is written in full has the text of its fields.    *)
LEMMA FormatFull ==
  ASSUME NEW n \in Int, FullWidth(n)
  PROVE  FormatTs(n) = PaddedText(n)
<1>1. YearOf(n) >= 10
  <2>1. n = YearLength * YearOf(n) + (n % YearLength) /\ n % YearLength < YearLength
    BY Calendar, Quotient DEF YearOf
  <2>2. 10 * YearLength <= n
    BY DEF FullWidth
  <2>3. ASSUME YearOf(n) < 10 PROVE FALSE
    <3>1. YearLength * YearOf(n) + YearLength <= YearLength * 10
      BY <2>3, Calendar, FieldTypes, Ordered
    <3> QED  BY <2>1, <2>2, <3>1, Calendar, FieldTypes, SMTT(30)
  <2> QED  BY <2>3, FieldTypes
<1>2. YearText(YearOf(n)) = Padded(YearOf(n))
  BY <1>1, FieldTypes DEF YearText, Padded
<1>3. FormatTs(n) = Padded(YearOf(n)) \o <<Dash, DayOf(n), Tee, HourOf(n), MicroOf(n)>>
  BY <1>2 DEF FormatTs, YearOf, DayOf, HourOf, MicroOf
<1>4. /\ YearOf(n) \in Int /\ DayOf(n) \in Int
      /\ HourOf(n) \in Int /\ MicroOf(n) \in Int
  BY FieldTypes
<1>5. Padded(YearOf(n)) \o <<Dash, DayOf(n), Tee, HourOf(n), MicroOf(n)>>
        = Text(YearOf(n), DayOf(n), HourOf(n), MicroOf(n))
  BY <1>4, StampTextIs, ZenonT(60)
<1> QED  BY <1>3, <1>5 DEF PaddedText

(* An instant given by its fields has these fields.                        *)
LEMMA FieldsAre ==
  ASSUME NEW y \in Int, NEW d \in 0..(DaysPerYear - 1), NEW h \in 0..(HoursPerDay - 1),
         NEW u \in 0..(MicrosPerHour - 1), NEW n \in Int,
         n = y * YearLength + d * DayLength + h * MicrosPerHour + u
  PROVE  YearOf(n) = y /\ DayOf(n) = d /\ HourOf(n) = h /\ MicroOf(n) = u
<1> DEFINE c == MicrosPerHour
           hours == HoursPerDay * (DaysPerYear * y + d) + h
           days == DaysPerYear * y + d
<1>1. /\ DaysPerYear \in Nat \ {0} /\ HoursPerDay \in Nat \ {0} /\ c \in Nat \ {0}
  BY Calendar
<1>2. days \in Int /\ hours \in Int
  BY <1>1
<1>3. n = c * hours + u
  <2>1. DayLength = HoursPerDay * c /\ YearLength = DaysPerYear * (HoursPerDay * c)
    BY DEF DayLength, YearLength
  <2>2. y * (DaysPerYear * (HoursPerDay * c)) = c * (HoursPerDay * (DaysPerYear * y))
    BY <1>1
  <2>3. d * (HoursPerDay * c) = c * (HoursPerDay * d)
    BY <1>1
  <2>4. c * (HoursPerDay * (DaysPerYear * y + d) + h)
          = c * (HoursPerDay * (DaysPerYear * y)) + c * (HoursPerDay * d) + h * c
    BY <1>1
  <2> QED  BY <1>1, <2>1, <2>2, <2>3, <2>4
<1>4. hours = HoursPerDay * days + h
  OBVIOUS
<1>5. n \div c = hours /\ n % c = u
  <2>1. c \in Nat \ {0} /\ hours \in Int /\ u \in 0..(c - 1) /\ n \in Int /\ n = c * hours + u
    <3> HIDE DEF hours
    <3> QED  BY <1>1, <1>2, <1>3
  <2> HIDE DEF hours, c
  <2> QED  BY <2>1, QuotientIs, SMTT(30)
<1>6. hours \div HoursPerDay = days /\ hours % HoursPerDay = h
  <2> HIDE DEF hours, days
  <2> QED  BY <1>1, <1>2, <1>4, QuotientIs, ZenonT(60)
<1>7. days \div DaysPerYear = y /\ days % DaysPerYear = d
  BY <1>1, <1>2, QuotientIs
<1>8. n \div DayLength = days
  <2>1. n \div (HoursPerDay * c) = (n \div c) \div HoursPerDay
    BY <1>1, QuotientOfQuotient
  <2> QED  BY <1>5, <1>6, <2>1 DEF DayLength
<1>9. n \div YearLength = y
  <2>1. n \div (DaysPerYear * DayLength) = (n \div DayLength) \div DaysPerYear
    BY Calendar, QuotientOfQuotient
  <2> QED  BY <1>7, <1>8, <2>1 DEF YearLength
<1> HIDE DEF hours, days
<1> QED  BY <1>5, <1>6, <1>7, <1>8, <1>9 DEF YearOf, DayOf, HourOf, MicroOf

-----------------------------------------------------------------------------
(* to_utc yields the instant a client meant, with an offset or without.    *)
LEMMA InstantIs ==
  ASSUME NEW ts \in Written
  PROVE  Instant(ts) \in Int /\ ToUtc(ts) = Instant(ts)
<1>1. /\ ts.year \in Int /\ ts.day \in Int /\ ts.hour \in Int /\ ts.micro \in Int
      /\ ts.offset = NULL \/ ts.offset \in Int
  BY Calendar DEF Written
<1>2. Local(ts) \in Int
  <2>1. /\ ts.year * YearLength \in Int /\ ts.day * DayLength \in Int
        /\ ts.hour * MicrosPerHour \in Int
    BY <1>1, Calendar
  <2> QED  BY <1>1, <2>1 DEF Local
<1>3. CASE ts.offset = NULL
  BY <1>2, <1>3 DEF Instant, ToUtc
<1>4. CASE ts.offset # NULL
  <2>1. ts.offset * MicrosPerHour \in Int
    BY <1>1, <1>4, Calendar
  <2> QED  BY <1>2, <1>4, <2>1 DEF Instant, ToUtc
<1> QED  BY <1>3, <1>4

(* The first and the last instant of a date, in fields.                    *)
LEMMA DateFields ==
  ASSUME NEW b \in Bounds, b.kind = "date"
  PROVE  /\ FirstOf(b) \in Int /\ LastOf(b) \in Int
         /\ b.stamp.year \in Int /\ b.stamp.day \in 0..(DaysPerYear - 1)
         /\ YearOf(FirstOf(b)) = b.stamp.year /\ DayOf(FirstOf(b)) = b.stamp.day
         /\ HourOf(FirstOf(b)) = 0 /\ MicroOf(FirstOf(b)) = 0
         /\ YearOf(LastOf(b)) = b.stamp.year /\ DayOf(LastOf(b)) = b.stamp.day
         /\ HourOf(LastOf(b)) = HoursPerDay - 1 /\ MicroOf(LastOf(b)) = MicrosPerHour - 1
<1> DEFINE y == b.stamp.year
           d == b.stamp.day
<1>1. y \in Int /\ d \in 0..(DaysPerYear - 1)
  BY InputsAssumption, Calendar DEF Written
<1>2. FirstOf(b) = y * YearLength + d * DayLength /\ LastOf(b) = FirstOf(b) + DayLength - 1
  BY DEF FirstOf, LastOf
<1>3. /\ y * YearLength \in Int /\ d * DayLength \in Int
      /\ (HoursPerDay - 1) * MicrosPerHour \in Int
  BY <1>1, Calendar
<1>4. DayLength = (HoursPerDay - 1) * MicrosPerHour + MicrosPerHour
  BY Calendar DEF DayLength
<1>5. 0 * MicrosPerHour = 0
  BY Calendar
<1>6. FirstOf(b) \in Int /\ LastOf(b) \in Int
  BY <1>2, <1>3, Calendar
<1>7. /\ FirstOf(b) = y * YearLength + d * DayLength + 0 * MicrosPerHour + 0
      /\ 0 \in 0..(HoursPerDay - 1) /\ 0 \in 0..(MicrosPerHour - 1)
  BY <1>2, <1>3, <1>5, Calendar
<1> DEFINE h == HoursPerDay - 1
           u == MicrosPerHour - 1
<1>8. /\ LastOf(b) = y * YearLength + d * DayLength + h * MicrosPerHour + u
      /\ h \in 0..(HoursPerDay - 1) /\ u \in 0..(MicrosPerHour - 1)
  <2> DEFINE p == y * YearLength
             q == d * DayLength
             r == h * MicrosPerHour
  <2>1. p \in Int /\ q \in Int /\ r \in Int
    BY <1>3
  <2>2. LastOf(b) = p + q + (r + MicrosPerHour) - 1
    BY <1>2, <1>4
  <2> HIDE DEF p, q, r
  <2>3. LastOf(b) = p + q + r + u
    BY <2>1, <2>2, Calendar
  <2> QED  BY <2>3, Calendar DEF p, q, r
<1> HIDE DEF y, d, h, u
<1>9. /\ YearOf(FirstOf(b)) = y /\ DayOf(FirstOf(b)) = d
      /\ HourOf(FirstOf(b)) = 0 /\ MicroOf(FirstOf(b)) = 0
  BY <1>1, <1>6, <1>7, FieldsAre
<1>10. /\ YearOf(LastOf(b)) = y /\ DayOf(LastOf(b)) = d
       /\ HourOf(LastOf(b)) = h /\ MicroOf(LastOf(b)) = u
  BY <1>1, <1>6, <1>8, FieldsAre
<1> QED  BY <1>1, <1>6, <1>9, <1>10 DEF y, d, h, u

(* The text bounds of a date are the texts of its first and last instant,  *)
(* short years included: a client writes those padded.                     *)
LEMMA DateBounds ==
  ASSUME NEW b \in Bounds, b.kind = "date"
  PROVE  /\ LowerBound(b) = PaddedText(FirstOf(b))
         /\ UpperBound(b) = PaddedText(LastOf(b))
<1> DEFINE y == b.stamp.year
           d == b.stamp.day
           h == HoursPerDay - 1
           u == MicrosPerHour - 1
           zero == 0
<1>1. zero \in Int /\ y \in Int /\ d \in Int /\ h \in Int /\ u \in Int
  BY DateFields, Calendar
<1>2. /\ LowerBound(b) = (Padded(y) \o <<Dash, d>>) \o <<Tee, zero, zero>>
      /\ UpperBound(b) = (Padded(y) \o <<Dash, d>>) \o <<Tee, h, u>>
  BY DEF LowerBound, UpperBound, DateText
<1>3. /\ PaddedText(FirstOf(b)) = Text(y, d, zero, zero)
      /\ PaddedText(LastOf(b)) = Text(y, d, h, u)
  BY DateFields DEF PaddedText
<1> HIDE DEF y, d, h, u, zero
<1>4. (Padded(y) \o <<Dash, d>>) \o <<Tee, zero, zero>> = Text(y, d, zero, zero)
  BY <1>1, DateTextIs, SMTT(30)
<1>5. (Padded(y) \o <<Dash, d>>) \o <<Tee, h, u>> = Text(y, d, h, u)
  BY <1>1, DateTextIs, ZenonT(60)
<1> QED  BY <1>2, <1>3, <1>4, <1>5

(* Both ends of a range compare as the first and the last instant of it.   *)
LEMMA BoundIs ==
  ASSUME NEW b \in Bounds, b.kind # "rubbish"
  PROVE  /\ FirstOf(b) \in Int /\ LastOf(b) \in Int
         /\ FullWidth(FirstOf(b)) => /\ LowerBound(b) = PaddedText(FirstOf(b))
                                     /\ BoundRefusal(b) = 0
         /\ FullWidth(LastOf(b)) => /\ UpperBound(b) = PaddedText(LastOf(b))
                                    /\ BoundRefusal(b) = 0
<1>1. CASE b.kind = "date"
  BY <1>1, DateFields, DateBounds DEF BoundRefusal
<1>2. CASE b.kind = "stamp"
  <2>1. Instant(b.stamp) \in Int /\ ToUtc(b.stamp) = Instant(b.stamp)
    BY <1>2, InputsAssumption, InstantIs
  <2>2. FirstOf(b) = Instant(b.stamp) /\ LastOf(b) = Instant(b.stamp)
    BY <1>2 DEF FirstOf, LastOf
  <2>3. LowerBound(b) = FormatTs(Instant(b.stamp)) /\ UpperBound(b) = FormatTs(Instant(b.stamp))
    BY <1>2, <2>1 DEF LowerBound, UpperBound
  <2>4. FullWidth(Instant(b.stamp)) => BoundRefusal(b) = 0
    BY <1>2, <2>1 DEF FullWidth, BoundRefusal, StampRefusal
  <2> QED  BY <2>1, <2>2, <2>3, <2>4, FormatFull
<1> QED  BY <1>1, <1>2, InputsAssumption

-----------------------------------------------------------------------------
(* Short years.  Their texts agree with no date, and with no window of one. *)
ShortText(n) == <<YearOf(n), Dash, DayOf(n), Tee, HourOf(n), MicroOf(n)>>

(* An instant before year 10 has a text of six elements.                   *)
LEMMA FormatShort ==
  ASSUME NEW n \in Int, YearOf(n) < 10
  PROVE  FormatTs(n) = ShortText(n)
<1> DEFINE y == YearOf(n)
           d == DayOf(n)
           h == HourOf(n)
           u == MicroOf(n)
           s == <<y>>
           t == <<Dash, d, Tee, h, u>>
           x == <<y, Dash, d, Tee, h, u>>
<1>1. y \in Int /\ d \in Int /\ h \in Int /\ u \in Int /\ Dash \in Int /\ Tee \in Int
  BY FieldTypes DEF Dash, Tee
<1>2. FormatTs(n) = s \o t
  BY DEF FormatTs, YearText, YearOf, DayOf, HourOf, MicroOf
<1>3. ShortText(n) = x
  BY DEF ShortText
<1> HIDE DEF y, d, h, u
<1>4. /\ s \in Seq(Int) /\ t \in Seq(Int) /\ x \in Seq(Int)
      /\ Len(s) = 1 /\ Len(t) = 5 /\ Len(x) = 6
  BY <1>1
<1>5. \A i \in {1} : x[i] = s[i]
  OBVIOUS
<1>6. \A i \in {1, 2, 3, 4, 5} : x[1 + i] = t[i]
  OBVIOUS
<1> HIDE DEF s, t, x
<1>7. 1..Len(s) = {1} /\ 1..Len(t) = {1, 2, 3, 4, 5}
  BY <1>4
<1>8. /\ Len(x) = Len(s) + Len(t)
      /\ \A i \in 1..Len(s) : x[i] = s[i]
      /\ \A i \in 1..Len(t) : x[Len(s) + i] = t[i]
  BY <1>4, <1>5, <1>6, <1>7
<1>9. s \o t = x
  BY <1>4, <1>8, JoinIs, Zenon
<1> QED  BY <1>2, <1>3, <1>9

(* What substr(text, 1, 10) keeps.                                         *)
LEMMA FirstFour ==
  ASSUME NEW x \in Seq(Int), Len(x) >= 4
  PROVE  TxnDate(x) = <<x[1], x[2], x[3], x[4]>>
<1>1. \A i \in {1, 2, 3, 4} : x[i] \in Int
  <2>1. \A i \in 1..Len(x) : x[i] \in Int
    BY ElementOfSeq
  <2>2. Len(x) \in Nat
    BY LenProperties
  <2> QED  BY <2>1, <2>2
<1> DEFINE s == SubSeq(x, 1, 4)
           t == <<x[1], x[2], x[3], x[4]>>
<1>2. s \in Seq(Int) /\ Len(s) = 4 /\ \A i \in {1, 2, 3, 4} : s[i] = x[i]
  <2>1. \A i \in 1..4 : i \in 1..Len(x)
    BY LenProperties
  <2>2. SubSeq(x, 1, 4) \in Seq(Int) /\ Len(SubSeq(x, 1, 4)) = 4
    BY <2>1, SubSeqProperties
  <2>3. \A i \in 1..4 : SubSeq(x, 1, 4)[i] = x[1 + i - 1]
    BY <2>1, SubSeqProperties
  <2> QED  BY <2>2, <2>3
<1>3. t \in Seq(Int) /\ Len(t) = 4 /\ \A i \in {1, 2, 3, 4} : t[i] = x[i]
  BY <1>1
<1> HIDE DEF s, t
<1>4. 1..4 = {1, 2, 3, 4}
  OBVIOUS
<1>5. s = t
  BY <1>2, <1>3, <1>4, SeqEqual, ZenonT(60)
<1> QED  BY <1>5 DEF s, t, TxnDate

(* An instant lies between the first and the last of a date if it lies on  *)
(* that date.                                                              *)
LEMMA SameDay ==
  ASSUME NEW b \in Bounds, b.kind = "date", NEW n \in Int
  PROVE  FirstOf(b) <= n /\ n <= LastOf(b)
           <=> YearOf(n) = b.stamp.year /\ DayOf(n) = b.stamp.day
<1> DEFINE p == FirstOf(b)
           q == LastOf(b)
           y == b.stamp.year
           d == b.stamp.day
<1>1. /\ p \in Int /\ q \in Int /\ y \in Int /\ d \in Int
      /\ YearOf(p) = y /\ DayOf(p) = d /\ HourOf(p) = 0 /\ MicroOf(p) = 0
      /\ YearOf(q) = y /\ DayOf(q) = d
      /\ HourOf(q) = HoursPerDay - 1 /\ MicroOf(q) = MicrosPerHour - 1
  BY DateFields
<1> HIDE DEF p, q, y, d
<1>2. /\ YearOf(n) \in Int /\ DayOf(n) \in Int
      /\ HourOf(n) \in 0..(HoursPerDay - 1) /\ MicroOf(n) \in 0..(MicrosPerHour - 1)
  BY FieldTypes
<1>3. n < p <=> YearOf(n) < y \/ (YearOf(n) = y /\ DayOf(n) < d)
  BY <1>1, <1>2, Earlier
<1>4. q < n <=> y < YearOf(n) \/ (YearOf(n) = y /\ d < DayOf(n))
  BY <1>1, <1>2, Earlier, Calendar
<1>5. p <= n /\ n <= q <=> YearOf(n) = y /\ DayOf(n) = d
  BY <1>1, <1>2, <1>3, <1>4
<1> QED  BY <1>5 DEF p, q, y, d

(* A row is in the group of a date exactly if it is in the window from     *)
(* that date to that date. A row of a short year is in neither: its second *)
(* element is a dash where every date has a digit.                         *)
LEMMA DateGroupIsWindow ==
  ASSUME NEW b \in Bounds, b.kind = "date", NEW n \in Int, Representable(n)
  PROVE  TxnDate(FormatTs(n)) = DateText(b.stamp) <=>
           AtMost(LowerBound(b), FormatTs(n)) /\ AtMost(FormatTs(n), UpperBound(b))
<1> DEFINE y == b.stamp.year
           d == b.stamp.day
<1>1. y \in Int /\ d \in Int
  BY DateFields
<1>2. DateText(b.stamp) = <<y \div 10, y % 10, Dash, d>>
  BY <1>1, DayText DEF DateText
<1>3. FirstOf(b) \in Int /\ LastOf(b) \in Int
  BY DateFields
<1>4. CASE YearOf(n) >= 10
  <2>1. FullWidth(n)
    <3>1. n = YearLength * YearOf(n) + (n % YearLength) /\ n % YearLength >= 0
      BY Calendar, Quotient DEF YearOf
    <3>2. YearLength * 10 <= YearLength * YearOf(n)
      <4>1. CASE YearOf(n) = 10
        BY <4>1, Calendar
      <4>2. CASE 10 < YearOf(n)
        BY <4>2, Calendar, FieldTypes, Ordered
      <4> QED  BY <1>4, <4>1, <4>2, FieldTypes
    <3>3. n % YearLength \in Int /\ YearLength * YearOf(n) \in Int
      BY Calendar, Quotient, FieldTypes
    <3> QED  BY <3>1, <3>2, <3>3, Calendar DEF FullWidth
  <2>2. FormatTs(n) = PaddedText(n)
    BY <2>1, FormatFull
  <2>3. /\ AtMost(LowerBound(b), FormatTs(n)) <=> FirstOf(b) <= n
        /\ AtMost(FormatTs(n), UpperBound(b)) <=> n <= LastOf(b)
    BY <1>3, <2>2, DateBounds, PaddedOrder
  <2>4. TxnDate(FormatTs(n)) = <<YearOf(n) \div 10, YearOf(n) % 10, Dash, DayOf(n)>>
    <3> DEFINE x == FormatTs(n)
    <3>1. x = Text(YearOf(n), DayOf(n), HourOf(n), MicroOf(n))
      BY <2>2 DEF PaddedText
    <3>2. x \in Seq(Int) /\ Len(x) = 7
      <4>1. /\ YearOf(n) \in Int /\ DayOf(n) \in Int /\ HourOf(n) \in Int /\ MicroOf(n) \in Int
        BY FieldTypes
      <4> HIDE DEF x
      <4> QED  BY <3>1, <4>1, TextLength
    <3>3. /\ x[1] = YearOf(n) \div 10 /\ x[2] = YearOf(n) % 10
          /\ x[3] = Dash /\ x[4] = DayOf(n)
      BY <3>1 DEF Text
    <3> HIDE DEF x
    <3>4. TxnDate(x) = <<x[1], x[2], x[3], x[4]>>
      <4>1. x \in Seq(Int) /\ Len(x) >= 4
        BY <3>2
      <4> QED  BY <4>1, FirstFour, Zenon
    <3> QED  BY <3>3, <3>4 DEF x
  <2>5. YearOf(n) = y <=> YearOf(n) \div 10 = y \div 10 /\ YearOf(n) % 10 = y % 10
    <3>1. YearOf(n) \in Int /\ y \in Int /\ 10 \in Nat \ {0}
      BY <1>1, FieldTypes
    <3> HIDE DEF y
    <3> QED  BY <3>1, Split, Zenon
  <2>6. TxnDate(FormatTs(n)) = DateText(b.stamp) <=> YearOf(n) = y /\ DayOf(n) = d
    BY <1>2, <2>4, <2>5
  <2> QED  BY <2>3, <2>6, SameDay
<1>5. CASE YearOf(n) < 10
  <2> DEFINE x == FormatTs(n)
             l == LowerBound(b)
             u == UpperBound(b)
             p == y \div 10
             q == y % 10
  <2>1. /\ YearOf(n) \in Int /\ DayOf(n) \in Int /\ HourOf(n) \in Int /\ MicroOf(n) \in Int
        /\ Dash \in Int /\ Tee \in Int
    BY FieldTypes DEF Dash, Tee
  <2>2. x \in Seq(Int) /\ Len(x) = 6 /\ x[1] = YearOf(n) /\ x[2] = Dash
    <3>1. x = <<YearOf(n), Dash, DayOf(n), Tee, HourOf(n), MicroOf(n)>>
      BY <1>5, FormatShort DEF ShortText
    <3> HIDE DEF x
    <3> QED  BY <2>1, <3>1
  <2>3. p \in Int /\ q \in Int /\ q >= 0
    <3> HIDE DEF y
    <3>1. p \in Int /\ q \in 0..9
      BY <1>1, Quotient
    <3> QED  BY <3>1
  <2>4. /\ l \in Seq(Int) /\ Len(l) = 7 /\ l[1] = p /\ l[2] = q
        /\ u \in Seq(Int) /\ Len(u) = 7 /\ u[1] = p /\ u[2] = q
    <3>1. l = Text(y, d, 0, 0) /\ u = Text(y, d, HoursPerDay - 1, MicrosPerHour - 1)
      BY DateFields, DateBounds DEF PaddedText
    <3>2. HoursPerDay - 1 \in Int /\ MicrosPerHour - 1 \in Int /\ 0 \in Int
      BY Calendar
    <3>3. Text(y, d, 0, 0) \in Seq(Int) /\ Len(Text(y, d, 0, 0)) = 7
      <4> HIDE DEF y, d
      <4> QED  BY <1>1, <3>2, TextLength, ZenonT(60)
    <3>4. /\ Text(y, d, HoursPerDay - 1, MicrosPerHour - 1) \in Seq(Int)
          /\ Len(Text(y, d, HoursPerDay - 1, MicrosPerHour - 1)) = 7
      <4> HIDE DEF y, d
      <4> QED  BY <1>1, <3>2, TextLength, ZenonT(60)
    <3> QED  BY <3>1, <3>3, <3>4 DEF Text
  <2>5. TxnDate(x) # DateText(b.stamp)
    <3> HIDE DEF x
    <3>1. TxnDate(x) = <<x[1], x[2], x[3], x[4]>>
      <4>1. x \in Seq(Int) /\ Len(x) >= 4
        BY <2>2
      <4> QED  BY <4>1, FirstFour, Zenon
    <3> QED  BY <1>2, <2>2, <2>3, <3>1 DEF Dash
  <2> HIDE DEF x, l, u, p, q
  <2>6. AtMost(l, x) => p < x[1]
    <3>1. l # x
      <4>1. Len(l) # Len(x)
        BY <2>2, <2>4
      <4> QED  BY <4>1, Zenon
    <3>2. TextBefore(l, x) => p < x[1]
      <4> SUFFICES ASSUME NEW k \in 0..7, k < 6,
                          \A i \in 1..k : l[i] = x[i],
                          k = 7 \/ l[k + 1] < x[k + 1]
                   PROVE  p < x[1]
        BY <2>2, <2>4 DEF TextBefore
      <4>1. CASE k = 0
        BY <2>4, <4>1
      <4>2. CASE k = 1
        BY <2>2, <2>3, <2>4, <4>2 DEF Dash
      <4>3. CASE k > 1
        <5>1. 2 \in 1..k
          BY <4>3
        <5> QED  BY <2>2, <2>3, <2>4, <5>1 DEF Dash
      <4> QED  BY <4>1, <4>2, <4>3
    <3> QED  BY <3>1, <3>2 DEF AtMost
  <2>7. AtMost(x, u) => x[1] <= p
    <3>1. u # x
      <4>1. Len(u) # Len(x)
        BY <2>2, <2>4
      <4> QED  BY <4>1, Zenon
    <3>2. TextBefore(x, u) => x[1] <= p
      <4> SUFFICES ASSUME NEW k \in 0..6, k < 7,
                          \A i \in 1..k : x[i] = u[i],
                          k = 6 \/ x[k + 1] < u[k + 1]
                   PROVE  x[1] <= p
        BY <2>2, <2>4 DEF TextBefore
      <4>1. CASE k = 0
        BY <2>1, <2>2, <2>3, <2>4, <4>1
      <4>2. CASE k > 0
        <5>1. 1 \in 1..k
          BY <4>2
        <5> QED  BY <2>1, <2>2, <2>3, <2>4, <5>1
      <4> QED  BY <4>1, <4>2
    <3> QED  BY <3>1, <3>2 DEF AtMost
  <2>8. ~ (AtMost(l, x) /\ AtMost(x, u))
    BY <2>1, <2>2, <2>3, <2>6, <2>7
  <2> QED  BY <2>5, <2>8 DEF x, l, u
<1> QED  BY <1>4, <1>5, FieldTypes

-----------------------------------------------------------------------------
(* The inductive invariant: every row holds the text of its instant, and   *)
(* the last answer was computed from the rows there are.                   *)
RowsAreWritten ==
  \A r \in rows : r.at \in Int /\ Representable(r.at) /\ r.text = FormatTs(r.at)

ListAnswered ==
  reply.op = "list" =>
    /\ reply.lo \in Bounds /\ reply.hi \in Bounds
    /\ LET refusal == WindowRefusal(reply.endpoint, reply.lo, reply.hi)
       IN reply.code = IF refusal = 0 THEN 200 ELSE refusal
    /\ reply.code = 200 =>
         reply.items = {r \in rows : /\ AtMost(LowerBound(reply.lo), r.text)
                                     /\ AtMost(r.text, UpperBound(reply.hi))}

ReportAnswered ==
  reply.op = "report" =>
    /\ reply.as_of \in AsOfs /\ reply.hours \in Windows
    /\ reply.code = 200 =>
         reply.items = {r \in rows :
           TextBefore(r.text, FormatTs(ToUtc(reply.as_of) - reply.hours * MicrosPerHour))}

WInv == RowsAreWritten /\ ListAnswered /\ ReportAnswered

(* There are no rows and no answers at first.                              *)
LEMMA InitWInv == Init => WInv
BY DEF Init, NoReply, WInv, RowsAreWritten, ListAnswered, ReportAnswered

(* WInv is inductive: a post writes the text of its instant, a list and a  *)
(* report read the rows there are.                                         *)
LEMMA StepWInv == WInv /\ [Next]_vars => WInv'
<1> SUFFICES ASSUME WInv, [Next]_vars PROVE WInv'
  OBVIOUS
<1> USE DEF WInv
<1>1. ASSUME NEW ts \in Stamps, Post(ts) PROVE WInv'
  <2>1. reply'.op = "post"
    BY <1>1 DEF Post
  <2>2. RowsAreWritten'
    <3>1. CASE UNCHANGED rows
      BY <3>1 DEF RowsAreWritten
    <3>2. CASE /\ StampRefusal(ts) = 0
               /\ rows' = rows \cup {[at |-> Instant(ts), text |-> FormatTs(ToUtc(ts))]}
      <4>1. Instant(ts) \in Int /\ ToUtc(ts) = Instant(ts)
        BY InputsAssumption, InstantIs
      <4>2. Representable(Instant(ts))
        BY <3>2, <4>1 DEF StampRefusal
      <4> QED  BY <3>2, <4>1, <4>2 DEF RowsAreWritten
    <3> QED  BY <1>1, <3>1, <3>2 DEF Post
  <2> QED  BY <2>1, <2>2 DEF ListAnswered, ReportAnswered
<1>2. ASSUME NEW endpoint \in {"transactions", "events"}, NEW lo \in Bounds, NEW hi \in Bounds,
             List(endpoint, lo, hi)
      PROVE  WInv'
  <2>1. /\ reply'.op = "list" /\ reply'.endpoint = endpoint /\ reply'.lo = lo /\ reply'.hi = hi
        /\ LET refusal == WindowRefusal(endpoint, lo, hi)
           IN /\ reply'.code = IF refusal = 0 THEN 200 ELSE refusal
              /\ refusal = 0 => reply'.items = {r \in rows : /\ AtMost(LowerBound(lo), r.text)
                                                             /\ AtMost(r.text, UpperBound(hi))}
    BY <1>2 DEF List
  <2>2. rows' = rows
    BY <1>2 DEF List
  <2>3. WindowRefusal(endpoint, lo, hi) # 200
    BY DEF WindowRefusal, BoundRefusal, StampRefusal
  <2> QED  BY <2>1, <2>2, <2>3 DEF RowsAreWritten, ListAnswered, ReportAnswered
<1>3. ASSUME NEW as_of \in AsOfs, NEW hours \in Windows, Report(as_of, hours) PROVE WInv'
  <2>1. /\ reply'.op = "report" /\ reply'.as_of = as_of /\ reply'.hours = hours
        /\ LET refusal == ReportRefusal(as_of)
           IN /\ reply'.code = IF refusal = 0 THEN 200 ELSE refusal
              /\ refusal = 0 => reply'.items = {r \in rows :
                     TextBefore(r.text, FormatTs(ToUtc(as_of) - hours * MicrosPerHour))}
    BY <1>3 DEF Report
  <2>2. rows' = rows
    BY <1>3 DEF Report
  <2>3. ReportRefusal(as_of) # 200
    BY DEF ReportRefusal, StampRefusal
  <2> QED  BY <2>1, <2>2, <2>3 DEF RowsAreWritten, ListAnswered, ReportAnswered
<1>4. ASSUME UNCHANGED vars PROVE WInv'
  BY <1>4 DEF vars, RowsAreWritten, ListAnswered, ReportAnswered
<1> QED  BY <1>1, <1>2, <1>3, <1>4 DEF Next

(* In every state each row holds the text of its instant and the last      *)
(* answer fits its request.                                                *)
THEOREM WindowsInvariance == Spec => []WInv
BY InitWInv, StepWInv, PTL DEF Spec

-----------------------------------------------------------------------------
(* Rows compare as their instants do.                                      *)
LEMMA TextsOrdered == WInv => TextOrderIsTimeOrder
<1> SUFFICES ASSUME WInv, NEW r \in rows, NEW s \in rows, FullWidth(r.at), FullWidth(s.at)
             PROVE  /\ TextBefore(r.text, s.text) <=> r.at < s.at
                    /\ r.text = s.text <=> r.at = s.at
  BY DEF TextOrderIsTimeOrder
<1>1. PICK a, b : a = r.at /\ b = s.at
  OBVIOUS
<1>2. a \in Int /\ b \in Int /\ r.text = FormatTs(a) /\ s.text = FormatTs(b)
  BY <1>1 DEF WInv, RowsAreWritten
<1>3. FormatTs(a) = PaddedText(a) /\ FormatTs(b) = PaddedText(b)
  BY <1>1, <1>2, FormatFull
<1>4. /\ TextBefore(PaddedText(a), PaddedText(b)) <=> a < b
      /\ PaddedText(a) = PaddedText(b) <=> a = b
  BY <1>2, PaddedOrder
<1> QED  BY <1>1, <1>2, <1>3, <1>4

(* "Fixed width matters" (timeutils.py:7-12): for every calendar of years  *)
(* of equal length, every set of timestamps and every number of rows,      *)
(* stored texts of full years compare as the instants they stand for,      *)
(* whatever offset each event was sent with.                               *)
THEOREM TimestampsCompare == Spec => []TextOrderIsTimeOrder
BY WindowsInvariance, TextsOrdered, PTL

(* Groups of dates are windows of dates.                                   *)
LEMMA DatesAgree == WInv => DateGroupsAreDateWindows
<1> SUFFICES ASSUME WInv, NEW r \in rows, NEW b \in Bounds, b.kind = "date"
             PROVE  TxnDate(r.text) = DateText(b.stamp) <=>
                      AtMost(LowerBound(b), r.text) /\ AtMost(r.text, UpperBound(b))
  BY DEF DateGroupsAreDateWindows
<1>1. PICK n : n = r.at
  OBVIOUS
<1>2. n \in Int /\ Representable(n) /\ r.text = FormatTs(n)
  BY <1>1 DEF WInv, RowsAreWritten
<1> QED  BY <1>2, DateGroupIsWindow

(* The rows a summary groups under a date (schema.sql's txn_date) are      *)
(* those a list from that date to that date returns, for every row there   *)
(* can be, short years included.                                           *)
THEOREM DateGroupsOpen == Spec => []DateGroupsAreDateWindows
BY WindowsInvariance, DatesAgree, PTL

(* A range between two bounds as texts is the range between their first    *)
(* and last instant.                                                       *)
LEMMA WindowOf ==
  ASSUME NEW lo \in Bounds, NEW hi \in Bounds, lo.kind # "rubbish", hi.kind # "rubbish",
         FullWidth(FirstOf(lo)), FullWidth(LastOf(hi))
  PROVE  /\ BoundRefusal(lo) = 0 /\ BoundRefusal(hi) = 0
         /\ TextBefore(UpperBound(hi), LowerBound(lo)) <=> LastOf(hi) < FirstOf(lo)
         /\ \A n \in Int : FullWidth(n) =>
              /\ AtMost(LowerBound(lo), FormatTs(n)) <=> FirstOf(lo) <= n
              /\ AtMost(FormatTs(n), UpperBound(hi)) <=> n <= LastOf(hi)
<1> DEFINE p == FirstOf(lo)
           q == LastOf(hi)
<1>1. /\ p \in Int /\ LowerBound(lo) = PaddedText(p) /\ BoundRefusal(lo) = 0
  BY BoundIs
<1>2. /\ q \in Int /\ UpperBound(hi) = PaddedText(q) /\ BoundRefusal(hi) = 0
  BY BoundIs
<1> HIDE DEF p, q
<1>3. TextBefore(PaddedText(q), PaddedText(p)) <=> q < p
  BY <1>1, <1>2, PaddedOrder
<1>4. ASSUME NEW n \in Int, FullWidth(n)
      PROVE  /\ AtMost(PaddedText(p), FormatTs(n)) <=> p <= n
             /\ AtMost(FormatTs(n), PaddedText(q)) <=> n <= q
  <2>1. FormatTs(n) = PaddedText(n)
    BY <1>4, FormatFull
  <2>2. AtMost(PaddedText(p), PaddedText(n)) <=> p <= n
    BY <1>1, PaddedOrder
  <2>3. AtMost(PaddedText(n), PaddedText(q)) <=> n <= q
    BY <1>2, PaddedOrder
  <2> QED  BY <2>1, <2>2, <2>3
<1> QED  BY <1>1, <1>2, <1>3, <1>4 DEF p, q

(* A list returns what lies in its window.                                 *)
LEMMA WindowsExact == WInv => WindowIsExact
<1> SUFFICES ASSUME WInv, reply.op = "list", reply.lo.kind # "rubbish", reply.hi.kind # "rubbish",
                    FullWidth(FirstOf(reply.lo)), FullWidth(LastOf(reply.hi))
             PROVE  /\ reply.code = 422 <=> /\ reply.endpoint # "events"
                                            /\ FirstOf(reply.lo) > LastOf(reply.hi)
                    /\ reply.code = 200 =>
                         \A r \in rows : FullWidth(r.at) =>
                           (r \in reply.items <=>
                              FirstOf(reply.lo) <= r.at /\ r.at <= LastOf(reply.hi))
  BY DEF WindowIsExact
<1>1. PICK lo, hi, endpoint : lo = reply.lo /\ hi = reply.hi /\ endpoint = reply.endpoint
  OBVIOUS
<1>2. /\ lo \in Bounds /\ hi \in Bounds
      /\ reply.code = IF WindowRefusal(endpoint, lo, hi) = 0 THEN 200
                      ELSE WindowRefusal(endpoint, lo, hi)
      /\ reply.code = 200 =>
           reply.items = {r \in rows : /\ AtMost(LowerBound(lo), r.text)
                                       /\ AtMost(r.text, UpperBound(hi))}
  BY <1>1 DEF WInv, ListAnswered
<1>3. /\ BoundRefusal(lo) = 0 /\ BoundRefusal(hi) = 0
      /\ TextBefore(UpperBound(hi), LowerBound(lo)) <=> LastOf(hi) < FirstOf(lo)
      /\ \A n \in Int : FullWidth(n) =>
           /\ AtMost(LowerBound(lo), FormatTs(n)) <=> FirstOf(lo) <= n
           /\ AtMost(FormatTs(n), UpperBound(hi)) <=> n <= LastOf(hi)
  BY <1>1, <1>2, WindowOf
<1>4. FirstOf(lo) \in Int /\ LastOf(hi) \in Int
  BY <1>1, <1>2, BoundIs
<1>5. reply.code = 422 <=> endpoint # "events" /\ FirstOf(lo) > LastOf(hi)
  BY <1>2, <1>3, <1>4 DEF WindowRefusal
<1>6. ASSUME reply.code = 200, NEW r \in rows, FullWidth(r.at)
      PROVE  r \in reply.items <=> FirstOf(lo) <= r.at /\ r.at <= LastOf(hi)
  <2>1. r.at \in Int /\ r.text = FormatTs(r.at)
    BY DEF WInv, RowsAreWritten
  <2> QED  BY <1>2, <1>3, <1>6, <2>1
<1> QED  BY <1>1, <1>5, <1>6

(* A list between two bounds returns every row from the first instant of   *)
(* the one to the last of the other and no further row, and is refused as  *)
(* reversed exactly if there is no such instant (range_lower_bound,        *)
(* range_upper_bound and their callers).                                   *)
THEOREM WindowsAreExact == Spec => []WindowIsExact
BY WindowsInvariance, WindowsExact, PTL

(* A text before the cutoff's is an instant before the cutoff.             *)
LEMMA OlderIsStale == WInv => StaleIsOlder
<1> SUFFICES ASSUME WInv, reply.op = "report", reply.code = 200,
                    FullWidth(Instant(reply.as_of) - reply.hours * MicrosPerHour),
                    NEW r \in rows, FullWidth(r.at)
             PROVE  r \in reply.items <=> r.at < Instant(reply.as_of) - reply.hours * MicrosPerHour
  BY DEF StaleIsOlder
<1>1. PICK as_of, hours, n, c : /\ as_of = reply.as_of /\ hours = reply.hours /\ n = r.at
                                /\ c = Instant(as_of) - hours * MicrosPerHour
  OBVIOUS
<1>2. /\ as_of \in AsOfs /\ hours \in Windows
      /\ reply.items = {x \in rows :
           TextBefore(x.text, FormatTs(ToUtc(as_of) - hours * MicrosPerHour))}
  BY <1>1 DEF WInv, ReportAnswered
<1>3. Instant(as_of) \in Int /\ ToUtc(as_of) = Instant(as_of)
  BY <1>2, InputsAssumption, InstantIs
<1>4. c \in Int
  <2>1. hours \in Int /\ MicrosPerHour \in Int
    BY <1>2, InputsAssumption, Calendar
  <2> QED  BY <1>1, <1>3, <2>1
<1>5. n \in Int /\ r.text = FormatTs(n)
  BY <1>1 DEF WInv, RowsAreWritten
<1>6. FormatTs(n) = PaddedText(n) /\ FormatTs(c) = PaddedText(c)
  BY <1>1, <1>4, <1>5, FormatFull
<1>7. TextBefore(PaddedText(n), PaddedText(c)) <=> n < c
  BY <1>4, <1>5, PaddedOrder
<1> QED  BY <1>1, <1>2, <1>3, <1>5, <1>6, <1>7

(* A report calls stale what happened more than stale_after_hours before   *)
(* as_of, whatever offsets the two were written with (get_discrepancies'   *)
(* cutoff).                                                                *)
THEOREM StaleMeansOlder == Spec => []StaleIsOlder
BY WindowsInvariance, OlderIsStale, PTL
=============================================================================
