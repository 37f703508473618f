---------------------------- MODULE MCTimestamps ----------------------------
(***************************************************************************)
(* Small instance of Timestamps: a year has two days of two hours of two   *)
(* microseconds, and years are 1 to 11, written in full from 10 on.        *)
(***************************************************************************)
EXTENDS Timestamps

Stamp(y, d, h, u, offset) ==
  [year |-> y, day |-> d, hour |-> h, micro |-> u, offset |-> offset]

(* Neighbours across an hour, a day and a year, the same instant written   *)
(* with different offsets, a short year, and stamps that overflow.         *)
MCStamps ==
  {Stamp(10, 0, 0, 0, NULL), Stamp(10, 0, 0, 1, 0), Stamp(10, 0, 1, 0, 1),
   Stamp(10, 0, 1, 1, NULL), Stamp(10, 0, 0, 1, -1), Stamp(10, 1, 0, 0, NULL),
   Stamp(10, 1, 0, 0, 1), Stamp(10, 1, 1, 1, 0), Stamp(11, 0, 0, 0, 1),
   Stamp(11, 0, 0, 0, NULL), Stamp(9, 1, 1, 1, NULL), Stamp(9, 1, 1, 0, -1),
   Stamp(1, 0, 0, 0, 1), Stamp(11, 1, 1, 1, -1)}

Date(y, d) == [kind |-> "date", stamp |-> Stamp(y, d, 0, 0, NULL)]
At(ts) == [kind |-> "stamp", stamp |-> ts]

MCBounds ==
  {Date(9, 1), Date(10, 0), Date(10, 1), Date(11, 0), [kind |-> "rubbish"],
   At(Stamp(10, 0, 1, 0, NULL)), At(Stamp(10, 1, 0, 0, 1)),
   At(Stamp(11, 0, 0, 0, 1)), At(Stamp(9, 1, 1, 0, NULL)), At(Stamp(1, 0, 0, 0, 1))}

MCAsOfs ==
  {Stamp(10, 0, 0, 0, NULL), Stamp(10, 1, 0, 0, 1), Stamp(10, 1, 1, 1, NULL),
   Stamp(11, 0, 0, 1, NULL), Stamp(9, 1, 1, 0, NULL), Stamp(11, 1, 1, 0, -1)}

MCWindows == {0, 1, 4}
=============================================================================
