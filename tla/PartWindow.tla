----------------------------- MODULE PartWindow ------------------------------
(***************************************************************************)
(* The window over the parts of one file (inner/exec_impl/part_window.rs): *)
(* which part offset to dispatch next, and the contiguous prefix that out- *)
(* of-order completions have reached.  A window is a record with the       *)
(* mutable fields of the struct; the immutable ones are parameters, cut    *)
(* is [start, chunk, total, max_in_flight].                                *)
(***************************************************************************)
EXTENDS Integers, FiniteSets

Least(a, b) == IF a <= b THEN a ELSE b

\* Where the part that starts at o ends; saturation at 2^64 is never reached,
\* since o < total and the sum is clamped to total.
PartEnd(cut, o) == Least(o + cut.chunk, cut.total)

\* The offsets at which a part may start, and the end of the file.
Boundaries(cut) ==
  {o \in cut.start .. cut.total : o = cut.total \/ (o - cut.start) % cut.chunk = 0}

\* Faulty variant of NewWindow: an odd resume offset is rounded up to the grid.
NewWindowOnGrid(cut) ==
  LET from == Least(((cut.start + cut.chunk - 1) \div cut.chunk) * cut.chunk, cut.total)
  IN  [next_dispatch |-> from, completed |-> {}, watermark |-> from, in_flight |-> 0]

NewWindow(cut) ==
  [ next_dispatch |-> Least(cut.start, cut.total),
    completed     |-> {},
    watermark     |-> Least(cut.start, cut.total),
    in_flight     |-> 0 ]

CanDispatch(cut, w) ==
  w.in_flight < cut.max_in_flight /\ w.next_dispatch < cut.total

\* take_dispatch hands out w.next_dispatch.
TakeDispatch(cut, w) ==
  [w EXCEPT !.next_dispatch = PartEnd(cut, @), !.in_flight = @ + 1]

\* The loop of on_done: from the watermark m on, swallow parts that are done
\* until one is missing or the file ends.
Absorb(cut, m, done) ==
  CHOOSE o \in Boundaries(cut) :
    /\ o >= m /\ o \notin done
    /\ \A p \in Boundaries(cut) : p >= m /\ p \notin done => o <= p

\* on_done of a dispatched part (it fails when in_flight = 0).
OnDone(cut, w, o) ==
  LET done == w.completed \cup {o}
      mark == Absorb(cut, w.watermark, done)
  IN  [w EXCEPT !.in_flight = @ - 1,
                !.completed = {p \in done : p >= mark},
                !.watermark = mark]

OnSettledWithoutProgress(w) ==
  [w EXCEPT !.in_flight = IF @ > 0 THEN @ - 1 ELSE 0]

IsComplete(cut, w) == w.watermark >= cut.total /\ w.in_flight = 0
=============================================================================
