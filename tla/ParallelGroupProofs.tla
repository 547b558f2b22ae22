------------------------ MODULE ParallelGroupProofs ------------------------
(***************************************************************************)
(* Proofs about the windowed driver of the parts of a file, for any number *)
(* of files, any sizes, part sizes and windows, and any memory budget.     *)
(***************************************************************************)
EXTENDS ParallelGroup, FiniteSetTheorems, TLAPS

PartStates == {"idle", "joined"} \cup Unfinished \cup Finished

Places == {p \in File \X Nat : p[2] \in Offsets(p[1])}

Windows == [next_dispatch : Nat, completed : SUBSET Nat, watermark : Nat, in_flight : Nat]

TypeOK ==
  /\ driver \in [File -> {"prepare", "begin", "fill", "join", "drain", "claimed", "exit"}]
  /\ start \in [File -> Nat]
  /\ window \in [File -> Windows]
  /\ part \in [File -> UNION {[Offsets(f) -> PartStates] : f \in File}]
  /\ \A f \in File : part[f] \in [Offsets(f) -> PartStates]
  /\ failed \in [File -> BOOLEAN] /\ cancelled \in [File -> BOOLEAN]
  /\ terminal \in [File -> GateState] /\ interrupted \in [File -> BOOLEAN]
  /\ waiters \in Seq(Places)
  /\ outbox \in [File -> {"none", "Completed", "Failed", "Canceled"}]
  /\ reported \in [File -> Nat] /\ stored \in [File -> SUBSET Nat]
  /\ acked \in [File -> BOOLEAN]
  /\ abort_required \in [File -> BOOLEAN] /\ aborted \in [File -> BOOLEAN]

PartBlock(f, o) == o .. PartEnd(Cut(f), o) - 1

Running == {"fill", "join", "drain"}

\* Parts exist only while the driver runs its window; before that nothing of
\* the file has failed, and what prepare found in place is what is stored.
PhaseInv(f) ==
  /\ start[f] <= Total[f]
  /\ driver[f] \notin Running => LiveParts(f) = {}
  /\ driver[f] \in {"prepare", "begin"} =>
       /\ \A o \in Offsets(f) : part[f][o] = "idle"
       /\ ~failed[f] /\ ~cancelled[f] /\ ~abort_required[f]
  /\ driver[f] = "begin" => reported[f] = start[f] /\ stored[f] = 0 .. start[f] - 1

\* Bytes: a part that is done is stored, the reported prefix is, and a claim to
\* complete is made for the whole file only.
StoreInv(f) ==
  /\ stored[f] \subseteq Offsets(f)
  /\ 0 .. reported[f] - 1 \subseteq stored[f]
  /\ \A o \in Offsets(f) : part[f][o] = "done" => PartBlock(f, o) \subseteq stored[f]
  /\ driver[f] = "claimed" \/ acked[f] \/ outbox[f] = "Completed" => stored[f] = Offsets(f)

\* The window is cut at the boundaries of the parts, its watermark is what was
\* reported, and the parts it keeps above a hole are stored.
WindowInv(f) ==
  driver[f] \in {"fill", "join"} =>
    /\ window[f].next_dispatch \in Boundaries(Cut(f))
    /\ window[f].watermark \in Boundaries(Cut(f)) /\ reported[f] = window[f].watermark
    /\ window[f].in_flight = Cardinality(LiveParts(f)) /\ window[f].in_flight <= MaxParts[f]
    /\ \A o \in window[f].completed : o \in Offsets(f) /\ PartBlock(f, o) \subseteq stored[f]
    /\ \A o \in Offsets(f) : part[f][o] # "idle" =>
         o \in Boundaries(Cut(f)) /\ o < window[f].next_dispatch

\* Failures and stops: which flag speaks for which part, and what the terminal
\* event has to say about them.
EndInv(f) ==
  /\ failed[f] => driver[f] \in {"join", "drain", "exit"}
  /\ abort_required[f] => DirOf[f] = "Upload"
  /\ abort_required[f] /\ driver[f] \notin {"drain", "exit"} =>
       failed[f] \/ \E o \in Offsets(f) : part[f][o] = "failed"
  /\ (cancelled[f] \/ \E o \in Offsets(f) : part[f][o] = "cancelled")
       /\ driver[f] \notin {"drain", "exit"} => interrupted[f]
  /\ acked[f] => driver[f] = "exit" /\ ~failed[f] /\ ~abort_required[f]
  /\ aborted[f] => driver[f] = "exit"
  /\ outbox[f] = "none" <=> driver[f] # "exit"
  /\ driver[f] = "exit" /\ (failed[f] \/ abort_required[f]) =>
       outbox[f] = "Failed" /\ (abort_required[f] => aborted[f])

FileInv(f) == PhaseInv(f) /\ StoreInv(f) /\ WindowInv(f) /\ EndInv(f)

IInv == TypeOK /\ QueueIsLive /\ \A f \in File : FileInv(f)

-----------------------------------------------------------------------------
(* Where the parts begin                                                   *)

\* Division with remainder.
LEMMA Division ==
  ASSUME NEW x \in Nat, NEW c \in Nat \ {0}
  PROVE  x % c \in 0 .. c - 1 /\ x \div c \in Nat /\ x = c * (x \div c) + (x % c)
  OBVIOUS

\* Multiples of c that are less than c apart are equal.
LEMMA MultiplesApart ==
  ASSUME NEW c \in Nat \ {0}, NEW q \in Int, NEW p \in Int, c * q < c * p
  PROVE  c * q + c <= c * p
<1>1. CASE q >= p
  <2>1. c * (q - p) >= 0
    BY <1>1
  <2> QED
    BY <2>1
<1>2. CASE q < p
  <2>1. p - q - 1 >= 0 /\ p - q - 1 \in Int
    BY <1>2
  <2>2. c * (p - q - 1) >= 0
    BY <2>1
  <2> QED
    BY <2>2
<1> QED
  BY <1>1, <1>2

\* A multiple of c leaves no remainder.
LEMMA MultipleRemainder ==
  ASSUME NEW c \in Nat \ {0}, NEW q \in Nat
  PROVE  (c * q) % c = 0
<1> DEFINE p == (c * q) \div c
           r == (c * q) % c
<1>1. c * q \in Nat
  OBVIOUS
<1>2. r \in 0 .. c - 1 /\ p \in Nat /\ c * q = c * p + r
  BY <1>1, Division, Zenon
<1> HIDE DEF p, r
<1>3. c * p \in Nat
  BY <1>2
<1>4. ~(c * p < c * q)
  <2> SUFFICES ASSUME c * p < c * q PROVE FALSE
    OBVIOUS
  <2>1. c * p + c <= c * q
    BY <1>2, MultiplesApart
  <2> QED
    BY <1>1, <1>2, <1>3, <2>1
<1> QED
  BY <1>1, <1>2, <1>3, <1>4 DEF r

Grid(cut) ==
  /\ cut.start \in Nat /\ cut.chunk \in Nat \ {0} /\ cut.total \in Nat
  /\ cut.start <= cut.total

\* take_dispatch moves from one boundary to the next.
LEMMA NextBoundary ==
  ASSUME NEW cut, Grid(cut), NEW o \in Boundaries(cut), o < cut.total
  PROVE  PartEnd(cut, o) \in Boundaries(cut) /\ o < PartEnd(cut, o) /\ PartEnd(cut, o) <= cut.total
<1>1. PICK a \in Nat, c \in Nat \ {0}, n \in Nat :
        a <= n /\ a = cut.start /\ c = cut.chunk /\ n = cut.total
  BY DEF Grid
<1>2. o \in a .. n /\ (o - a) % c = 0 /\ o < n
  BY <1>1 DEF Boundaries
<1>3. PartEnd(cut, o) = IF o + c <= n THEN o + c ELSE n
  BY <1>1 DEF PartEnd, Least
<1>4. ((o + c) - a) % c = 0
  <2>1. o - a \in Nat
    BY <1>2
  <2>2. PICK q \in Nat : o - a = c * q + ((o - a) % c)
    BY <2>1, Division, Zenon
  <2>3. c * q \in Nat /\ c * (q + 1) = c * q + c
    OBVIOUS
  <2>4. (o + c) - a = c * (q + 1) /\ q + 1 \in Nat
    BY <1>2, <2>2, <2>3
  <2> QED
    BY <2>4, MultipleRemainder
<1>5. PartEnd(cut, o) \in a .. n /\ o < PartEnd(cut, o)
  BY <1>2, <1>3
<1>6. PartEnd(cut, o) = n \/ (PartEnd(cut, o) - a) % c = 0
  <2>1. CASE PartEnd(cut, o) = o + c
    BY <1>4, <2>1, Zenon
  <2> QED
    BY <1>3, <2>1, Zenon
<1> QED
  BY <1>1, <1>5, <1>6 DEF Boundaries

\* Every byte lies in one part: the last boundary up to it begins that part.
LEMMA BlockOfByte ==
  ASSUME NEW cut, Grid(cut), NEW x \in cut.start .. cut.total - 1
  PROVE  \E p \in Boundaries(cut) :
           /\ p <= x /\ x < PartEnd(cut, p)
           /\ \A m \in Boundaries(cut) : m <= x => m <= p
<1>1. PICK a \in Nat, c \in Nat \ {0}, n \in Nat :
        a <= n /\ a = cut.start /\ c = cut.chunk /\ n = cut.total
  BY DEF Grid
<1>2. x \in a .. n - 1 /\ x - a \in Nat
  BY <1>1
<1>3. PICK q \in Nat, r \in 0 .. c - 1 : x - a = c * q + r
  <2>1. PICK y \in Nat : y = x - a
    BY <1>2, Zenon
  <2>2. y % c \in 0 .. c - 1 /\ y \div c \in Nat /\ y = c * (y \div c) + (y % c)
    BY Division, Zenon
  <2> QED
    BY <2>1, <2>2, Zenon
<1>4. (c * q) % c = 0 /\ c * q \in Nat
  BY MultipleRemainder
<1> DEFINE p == a + c * q
<1>5. p \in a .. n /\ p - a = c * q /\ p <= x /\ x < p + c
  BY <1>2, <1>3, <1>4
<1>6. ASSUME NEW m \in Boundaries(cut), m <= x PROVE m <= p
  <2>1. m \in a .. n /\ m < n /\ (m - a) % c = 0 /\ m - a \in Nat
    BY <1>1, <1>2, <1>6 DEF Boundaries
  <2>2. PICK k \in Nat : m - a = c * k + ((m - a) % c)
    BY <2>1, Division, Zenon
  <2>3. c * k \in Nat /\ m - a = c * k
    BY <2>1, <2>2
  <2>4. CASE c * q < c * k
    <3>1. c * q + c <= c * k
      BY <2>4, MultiplesApart
    <3> HIDE DEF p
    <3> QED
      BY <1>2, <1>3, <1>4, <1>5, <1>6, <2>1, <2>3, <3>1
  <2> QED
    BY <1>4, <2>1, <2>3, <2>4
<1>7. p \in Boundaries(cut)
  BY <1>1, <1>4, <1>5 DEF Boundaries
<1>8. x < PartEnd(cut, p)
  BY <1>1, <1>2, <1>5 DEF PartEnd, Least
<1> HIDE DEF p
<1> QED
  BY <1>5, <1>6, <1>7, <1>8

-----------------------------------------------------------------------------
\* A nonempty set of natural numbers has a least element.
LEMMA LeastElement ==
  ASSUME NEW S \in SUBSET Nat, S # {}
  PROVE  \E x \in S : \A y \in S : x <= y
<1>1. PICK x \in S : \A y \in S : <<y, x>> \notin OpToRel(<, Nat)
  BY NatLessThanWellFounded, WFMin, Zenon
<1>2. ASSUME NEW y \in S PROVE x <= y
  <2>1. x \in Nat /\ y \in Nat
    OBVIOUS
  <2>2. ~(y < x)
    BY <1>1, <2>1, Zenon DEF OpToRel
  <2> QED
    BY <2>1, <2>2
<1> QED
  BY <1>2

\* on_done: the watermark moves to the first boundary that is not done.
LEMMA AbsorbFacts ==
  ASSUME NEW cut, Grid(cut), NEW m \in Boundaries(cut), NEW done,
         \A o \in done : o < cut.total
  PROVE  LET mark == Absorb(cut, m, done)
         IN  /\ mark \in Boundaries(cut) /\ m <= mark
             /\ \A p \in Boundaries(cut) : m <= p /\ p < mark => p \in done
<1> DEFINE S == {o \in Boundaries(cut) : o >= m /\ o \notin done}
           mark == Absorb(cut, m, done)
<1>1. cut.total \in Nat /\ m \in Nat /\ Boundaries(cut) \subseteq Nat
  BY DEF Grid, Boundaries
<1>2. cut.total \in S
  <2>1. cut.total \in Boundaries(cut) /\ cut.total >= m
    BY DEF Grid, Boundaries
  <2>2. ~(cut.total < cut.total)
    BY <1>1
  <2> QED
    BY <2>1, <2>2
<1>3. PICK x \in S : \A y \in S : x <= y
  <2>1. S \in SUBSET Nat /\ S # {}
    BY <1>1, <1>2
  <2> HIDE DEF S
  <2> QED
    BY <2>1, LeastElement
<1>4. \E o \in Boundaries(cut) :
        /\ o >= m /\ o \notin done
        /\ \A p \in Boundaries(cut) : p >= m /\ p \notin done => o <= p
  BY <1>3, Zenon
<1>5. /\ mark \in Boundaries(cut) /\ mark >= m
      /\ \A p \in Boundaries(cut) : p >= m /\ p \notin done => mark <= p
  BY <1>4, Zenon DEF Absorb
<1> HIDE DEF mark
<1>6. m <= mark
  BY <1>1, <1>5
<1>7. ASSUME NEW p \in Boundaries(cut), m <= p, p < mark PROVE p \in done
  <2>1. p \in Nat /\ mark \in Nat /\ p >= m
    BY <1>1, <1>5, <1>7
  <2>2. ~(mark <= p)
    BY <1>7, <2>1
  <2> QED
    BY <1>5, <2>1, <2>2, Zenon
<1> QED
  BY <1>5, <1>6, <1>7 DEF mark

\* The prefix below the watermark is stored again after it moved: each byte it
\* passed lies in a part that is done.
LEMMA PrefixGrows ==
  ASSUME NEW cut, Grid(cut), NEW m \in Boundaries(cut), NEW done, NEW S,
         0 .. m - 1 \subseteq S,
         \A o \in done : o < cut.total /\ o .. PartEnd(cut, o) - 1 \subseteq S
  PROVE  0 .. Absorb(cut, m, done) - 1 \subseteq S
<1> DEFINE mark == Absorb(cut, m, done)
<1>1. /\ mark \in Boundaries(cut) /\ m <= mark
      /\ \A p \in Boundaries(cut) : m <= p /\ p < mark => p \in done
  BY AbsorbFacts
<1> HIDE DEF mark
<1>2. cut.start \in Nat /\ cut.total \in Nat /\ Boundaries(cut) \subseteq cut.start .. cut.total
  BY DEF Grid, Boundaries
<1>3. ASSUME NEW x \in 0 .. mark - 1, x >= m PROVE x \in S
  <2>1. x \in cut.start .. cut.total - 1
    BY <1>1, <1>2, <1>3
  <2>2. PICK p \in Boundaries(cut) :
          /\ p <= x /\ x < PartEnd(cut, p)
          /\ \A b \in Boundaries(cut) : b <= x => b <= p
    BY <2>1, BlockOfByte
  <2>3. m <= p /\ p < mark
    BY <1>1, <1>2, <1>3, <2>2
  <2>4. p .. PartEnd(cut, p) - 1 \subseteq S
    BY <1>1, <2>3
  <2>5. PartEnd(cut, p) \in Int
    BY <1>2, <2>2 DEF PartEnd, Least, Grid
  <2>6. x \in p .. PartEnd(cut, p) - 1
    BY <1>2, <2>1, <2>2, <2>5
  <2> QED
    BY <2>4, <2>6, Zenon
<1>4. \A x \in 0 .. mark - 1 : x >= m \/ x \in 0 .. m - 1
  BY <1>1, <1>2
<1> QED
  BY <1>3, <1>4, Zenon DEF mark

-----------------------------------------------------------------------------
(* Steps of one file                                                       *)

\* The part sizes of a file cut it into a grid.
LEMMA CutIsGrid ==
  ASSUME Constants, TypeOK, NEW f \in File, PhaseInv(f)
  PROVE  /\ Grid(Cut(f)) /\ Cut(f).start = start[f] /\ Cut(f).chunk = Chunk[f]
         /\ Cut(f).total = Total[f] /\ Cut(f).max_in_flight = MaxParts[f]
         /\ start[f] \in Nat /\ Total[f] \in Nat /\ Chunk[f] \in Nat \ {0}
<1>1. /\ Cut(f).start = start[f] /\ Cut(f).chunk = Chunk[f]
      /\ Cut(f).total = Total[f] /\ Cut(f).max_in_flight = MaxParts[f]
  BY DEF Cut
<1>2. start[f] \in Nat /\ Total[f] \in Nat /\ Chunk[f] \in Nat \ {0} /\ start[f] <= Total[f]
  BY Zenon DEF Constants, TypeOK, PhaseInv
<1> QED
  BY <1>1, <1>2, Zenon DEF Grid

\* What belongs to a file alone stays as it is.
Same(f) ==
  /\ driver'[f] = driver[f] /\ start'[f] = start[f] /\ window'[f] = window[f]
  /\ part'[f] = part[f] /\ failed'[f] = failed[f] /\ cancelled'[f] = cancelled[f]
  /\ terminal'[f] = terminal[f] /\ interrupted'[f] = interrupted[f]
  /\ outbox'[f] = outbox[f] /\ reported'[f] = reported[f] /\ stored'[f] = stored[f]
  /\ acked'[f] = acked[f] /\ abort_required'[f] = abort_required[f]
  /\ aborted'[f] = aborted[f]

\* A file whose part of the state stays keeps its invariant.
LEMMA SameFile ==
  ASSUME NEW f \in File, FileInv(f), Same(f)
  PROVE  FileInv(f)'
<1>1. LiveParts(f)' = LiveParts(f) /\ Cut(f)' = Cut(f)
  BY Zenon DEF Same, LiveParts, Cut
<1>2. \A o \in Offsets(f) : PartBlock(f, o)' = PartBlock(f, o)
  BY <1>1, Zenon DEF PartBlock
<1>3. PhaseInv(f)'
  BY <1>1, Zenon DEF Same, FileInv, PhaseInv
<1>4. StoreInv(f)'
  BY <1>2, Zenon DEF Same, FileInv, StoreInv
<1>5. WindowInv(f)'
  BY <1>1, <1>2, ZenonT(60) DEF Same, FileInv, WindowInv
<1>6. EndInv(f)'
  BY Zenon DEF Same, FileInv, EndInv
<1> QED
  BY <1>3, <1>4, <1>5, <1>6, Zenon DEF FileInv

\* A step of one file preserves the invariant if it does so for that file.
LEMMA FileStep ==
  ASSUME IInv, NEW f \in File, TypeOK', QueueIsLive', FileInv(f)',
         \A h \in File \ {f} : Same(h)
  PROVE  IInv'
<1>1. \A h \in File \ {f} : FileInv(h)'
  BY SameFile, Zenon DEF IInv
<1> QED
  BY <1>1, Zenon DEF IInv

\* The queue of the budget stays live while its parts wait.
LEMMA QueueStays ==
  ASSUME IInv, UNCHANGED waiters,
         \A p \in Places : part[p[1]][p[2]] = "waiting" => part'[p[1]][p[2]] = "waiting"
  PROVE  QueueIsLive'
<1>1. \A i \in DOMAIN waiters : waiters[i] \in Places
  BY DEF IInv, TypeOK
<1> QED
  BY <1>1, Zenon DEF IInv, QueueIsLive

\* The last step of a file: its parts are all joined, and the event it sends
\* speaks for what failed and for what is stored.
Ends(f, ev) ==
  /\ Finish(f, ev)
  /\ UNCHANGED <<start, window, part, failed, cancelled, terminal, interrupted, waiters,
                 reported, stored>>
  /\ acked' \in [File -> BOOLEAN] /\ abort_required' \in [File -> BOOLEAN]
  /\ aborted' \in [File -> BOOLEAN]
  /\ \A h \in File \ {f} : /\ acked'[h] = acked[h] /\ abort_required'[h] = abort_required[h]
                           /\ aborted'[h] = aborted[h]
  /\ LiveParts(f) = {}
  /\ abort_required'[f] => DirOf[f] = "Upload" /\ aborted'[f]
  /\ failed[f] \/ abort_required'[f] => ev = "Failed" /\ ~acked'[f]
  /\ acked'[f] \/ ev = "Completed" => stored[f] = Offsets(f)

\* Such a step preserves the invariant.
LEMMA FileEnds ==
  ASSUME NEW f \in File, NEW ev \in {"Completed", "Failed", "Canceled"}, IInv, Ends(f, ev)
  PROVE  IInv'
<1>1. /\ driver'[f] = "exit" /\ outbox'[f] = ev
      /\ \A h \in File \ {f} : driver'[h] = driver[h] /\ outbox'[h] = outbox[h]
  BY Zenon DEF Ends, Finish, IInv, TypeOK
<1>2. UNCHANGED <<start, window, part, failed, cancelled, terminal, interrupted, waiters,
                  reported, stored>>
  BY Zenon DEF Ends
<1>3. TypeOK'
  <2>1. /\ driver' \in [File -> {"prepare", "begin", "fill", "join", "drain", "claimed", "exit"}]
        /\ outbox' \in [File -> {"none", "Completed", "Failed", "Canceled"}]
    BY DEF Ends, Finish, IInv, TypeOK
  <2> QED
    BY <1>2, <2>1, Zenon DEF Ends, IInv, TypeOK
<1>4. \A h \in File \ {f} : Same(h)
  BY <1>1, <1>2, Zenon DEF Same, Ends
<1>5. QueueIsLive'
  BY <1>2, QueueStays, Zenon
<1>6. FileInv(f)'
  <2>1. LiveParts(f)' = {} /\ FileInv(f)
    BY <1>2, Zenon DEF Ends, LiveParts, IInv
  <2>2. Cut(f)' = Cut(f) /\ \A o \in Offsets(f) : PartBlock(f, o)' = PartBlock(f, o)
    BY <1>2, Zenon DEF Cut, PartBlock
  <2>3. PhaseInv(f)' /\ WindowInv(f)'
    BY <1>1, <1>2, <2>1, Zenon DEF PhaseInv, WindowInv, FileInv
  <2>4. StoreInv(f)'
    BY <1>1, <1>2, <2>1, <2>2, Zenon DEF StoreInv, FileInv, Ends
  <2>5. EndInv(f)'
    BY <1>1, <1>2, <2>1, Zenon DEF EndInv, FileInv, Ends
  <2> QED
    BY <2>3, <2>4, <2>5, Zenon DEF FileInv
<1> QED
  BY <1>3, <1>4, <1>5, <1>6, FileStep, Zenon

\* require_upload_abort and settle_required_upload_abort: only the session of
\* an upload is dropped, and it is aborted at once.
LEMMA DropFacts ==
  ASSUME NEW f \in File, IInv, DropSession(f)
  PROVE  /\ abort_required' \in [File -> BOOLEAN] /\ aborted' \in [File -> BOOLEAN]
         /\ \A h \in File \ {f} : abort_required'[h] = abort_required[h] /\ aborted'[h] = aborted[h]
         /\ abort_required'[f] => DirOf[f] = "Upload" /\ aborted'[f]
<1>1. abort_required \in [File -> BOOLEAN] /\ aborted \in [File -> BOOLEAN]
      /\ (abort_required[f] => DirOf[f] = "Upload")
  BY Zenon DEF IInv, TypeOK, FileInv, EndInv
<1> QED
  BY <1>1, Zenon DEF DropSession

\* A stopped file ends in Canceled, or in Failed when its target cannot be
\* released.
LEMMA StoppedFacts ==
  ASSUME NEW f \in File, FinishStopped(f)
  PROVE  \E ev \in {"Failed", "Canceled"} : Finish(f, ev)
  BY Zenon DEF FinishStopped

\* The prepare of a file gives up, or its window is refused.
LEMMA GivesUp ==
  ASSUME NEW f \in File, IInv, NotPrepared(f) \/ RejectWindow(f)
  PROVE  IInv'
<1>1. /\ driver[f] \in {"prepare", "begin"}
      /\ UNCHANGED <<start, window, part, failed, cancelled, terminal, interrupted, waiters,
                     reported, stored, acked>>
      /\ \/ DropSession(f) \/ UNCHANGED <<abort_required, aborted>>
  BY Zenon DEF NotPrepared, RejectWindow
<1>2. PICK ev \in {"Failed", "Canceled"} :
        Finish(f, ev) /\ (ev = "Failed" \/ UNCHANGED <<abort_required, aborted>>)
  BY StoppedFacts, Zenon DEF NotPrepared, RejectWindow
<1>3. LiveParts(f) = {} /\ ~failed[f] /\ ~abort_required[f] /\ ~acked[f]
  BY <1>1, Zenon DEF IInv, FileInv, PhaseInv, Running, EndInv
<1>4. /\ abort_required' \in [File -> BOOLEAN] /\ aborted' \in [File -> BOOLEAN]
      /\ \A h \in File \ {f} : abort_required'[h] = abort_required[h] /\ aborted'[h] = aborted[h]
      /\ abort_required'[f] => DirOf[f] = "Upload" /\ aborted'[f]
  <2>1. CASE DropSession(f)
    BY <2>1, DropFacts, Zenon
  <2>2. CASE UNCHANGED <<abort_required, aborted>>
    BY <1>3, <2>2, Zenon DEF IInv, TypeOK
  <2> QED
    BY <1>1, <2>1, <2>2, Zenon
<1>5. Ends(f, ev)
  BY <1>1, <1>2, <1>3, <1>4, Zenon DEF Ends, IInv, TypeOK
<1> QED
  BY <1>5, FileEnds, Zenon

\* With every part joined no part is left that failed or was stopped.
LEMMA NoneLeft ==
  ASSUME NEW f \in File, LiveParts(f) = {}
  PROVE  \A o \in Offsets(f) : part[f][o] # "failed" /\ part[f][o] # "cancelled"
  BY Zenon DEF LiveParts, Finished

\* A panicked file fails once the rest has been drained.
LEMMA PanicEnds ==
  ASSUME NEW f \in File, IInv, FailAfterPanic(f)
  PROVE  IInv'
<1>1. /\ driver[f] = "drain" /\ LiveParts(f) = {} /\ Finish(f, "Failed") /\ DropSession(f)
      /\ UNCHANGED <<start, window, part, failed, cancelled, terminal, interrupted, waiters,
                     reported, stored, acked>>
  BY Zenon DEF FailAfterPanic
<1>2. ~acked[f] /\ acked \in [File -> BOOLEAN]
  BY <1>1, Zenon DEF IInv, TypeOK, FileInv, EndInv
<1>3. Ends(f, "Failed")
  BY <1>1, <1>2, DropFacts, Zenon DEF Ends
<1> QED
  BY <1>3, FileEnds, Zenon

\* Completion is claimed for a file that is whole, with all its parts joined.
LEMMA FileClaims ==
  ASSUME NEW f \in File, IInv, LiveParts(f) = {}, driver[f] \notin {"drain", "exit"},
         ~failed[f], stored[f] = Offsets(f),
         driver' = [driver EXCEPT ![f] = "claimed"],
         terminal' = [terminal EXCEPT ![f] = BeginCompletion(@)],
         UNCHANGED <<start, window, part, failed, cancelled, interrupted, waiters, outbox,
                     reported, stored, acked, abort_required, aborted>>
  PROVE  IInv'
<1>1. /\ driver'[f] = "claimed"
      /\ \A h \in File \ {f} : driver'[h] = driver[h] /\ terminal'[h] = terminal[h]
  BY Zenon DEF IInv, TypeOK
<1>2. FileInv(f) /\ \A o \in Offsets(f) : part[f][o] # "failed" /\ part[f][o] # "cancelled"
  BY NoneLeft, Zenon DEF IInv
<1>3. TypeOK'
  <2>1. driver' \in [File -> {"prepare", "begin", "fill", "join", "drain", "claimed", "exit"}]
    BY DEF IInv, TypeOK
  <2>2. \A s \in GateState : BeginCompletion(s) \in GateState
    BY Zenon DEF BeginCompletion, GateState
  <2>3. terminal' \in [File -> GateState]
    BY <2>2, Zenon DEF IInv, TypeOK
  <2> QED
    BY <2>1, <2>3, Zenon DEF IInv, TypeOK
<1>4. \A h \in File \ {f} : Same(h)
  BY <1>1, Zenon DEF Same
<1>5. QueueIsLive'
  BY QueueStays, Zenon
<1>6. FileInv(f)'
  <2>1. LiveParts(f)' = LiveParts(f) /\ \A o \in Offsets(f) : PartBlock(f, o)' = PartBlock(f, o)
    BY Zenon DEF LiveParts, PartBlock, Cut
  <2>2. PhaseInv(f)' /\ WindowInv(f)'
    BY <1>1, <1>2, <2>1, Zenon DEF PhaseInv, WindowInv, FileInv
  <2>3. StoreInv(f)'
    BY <1>1, <1>2, <2>1, Zenon DEF StoreInv, FileInv
  <2>4. EndInv(f)'
    BY <1>1, <1>2, Zenon DEF EndInv, FileInv
  <2> QED
    BY <2>2, <2>3, <2>4, Zenon DEF FileInv
<1> QED
  BY <1>3, <1>4, <1>5, <1>6, FileStep, Zenon

\* A file that is whole claims completion, unless a stop was first.
LEMMA ClaimsOrStops ==
  ASSUME NEW f \in File, IInv, ClaimOrStop(f), LiveParts(f) = {},
         driver[f] \notin {"drain", "exit"}, ~failed[f], ~abort_required[f],
         stored[f] = Offsets(f),
         UNCHANGED <<start, window, part, failed, cancelled, interrupted, waiters,
                     reported, stored, acked, abort_required, aborted>>
  PROVE  IInv'
<1>1. CASE CanClaim(terminal[f])
  BY <1>1, FileClaims, Zenon DEF ClaimOrStop
<1>2. CASE ~CanClaim(terminal[f])
  <2>1. FinishStopped(f) /\ UNCHANGED terminal
    BY <1>2, Zenon DEF ClaimOrStop
  <2>2. PICK ev \in {"Failed", "Canceled"} : Finish(f, ev)
    BY <2>1, StoppedFacts, Zenon
  <2>3. Ends(f, ev)
    BY <2>1, <2>2, Zenon DEF Ends, IInv, TypeOK
  <2> QED
    BY <2>3, FileEnds, Zenon
<1> QED
  BY <1>1, <1>2, Zenon

\* Nothing to transfer: what prepare found in place is the whole file.
LEMMA ResumesAtTotal ==
  ASSUME NEW f \in File, Constants, IInv, ResumeAtTotal(f)
  PROVE  IInv'
<1>1. /\ driver[f] = "begin" /\ start[f] >= Total[f] /\ ClaimOrStop(f)
      /\ UNCHANGED <<start, window, part, failed, cancelled, interrupted, waiters,
                     reported, stored, acked, abort_required, aborted>>
  BY Zenon DEF ResumeAtTotal
<1>2. LiveParts(f) = {} /\ ~failed[f] /\ ~abort_required[f] /\ start[f] <= Total[f]
      /\ stored[f] = 0 .. start[f] - 1
  BY <1>1, Zenon DEF IInv, FileInv, PhaseInv, Running
<1>3. start[f] = Total[f]
  <2>1. start[f] \in Nat /\ Total[f] \in Nat
    BY Zenon DEF IInv, TypeOK, Constants
  <2> QED
    BY <1>1, <1>2, <2>1
<1>4. stored[f] = Offsets(f)
  BY <1>2, <1>3, Zenon DEF Offsets
<1> QED
  BY <1>1, <1>2, <1>4, ClaimsOrStops, Zenon

\* A complete window stands for a whole file.
LEMMA CompleteIsWhole ==
  ASSUME NEW f \in File, Constants, IInv, driver[f] = "join", IsComplete(Cut(f), window[f])
  PROVE  stored[f] = Offsets(f)
<1>1. /\ window[f].watermark \in Boundaries(Cut(f)) /\ reported[f] = window[f].watermark
      /\ stored[f] \subseteq Offsets(f) /\ 0 .. reported[f] - 1 \subseteq stored[f]
  BY Zenon DEF IInv, FileInv, WindowInv, StoreInv
<1>2. Cut(f).total = Total[f] /\ Cut(f).start = start[f] /\ Total[f] \in Nat /\ start[f] \in Nat
  BY CutIsGrid, Zenon DEF IInv, FileInv
<1>3. window[f].watermark = Total[f]
  BY <1>1, <1>2 DEF Boundaries, IsComplete
<1>4. 0 .. Total[f] - 1 \subseteq stored[f]
  BY <1>1, <1>3, Zenon
<1> QED
  BY <1>1, <1>4, Zenon DEF Offsets

\* The join barrier.
LEMMA Settles ==
  ASSUME NEW f \in File, Constants, IInv, Settle(f)
  PROVE  IInv'
<1>1. /\ driver[f] = "join" /\ LiveParts(f) = {}
      /\ UNCHANGED <<start, window, part, failed, cancelled, interrupted, waiters,
                     reported, stored, acked, abort_required>>
  BY Zenon DEF Settle, Drained
<1>2. /\ ~acked[f] /\ (abort_required[f] => failed[f] /\ DirOf[f] = "Upload")
      /\ acked \in [File -> BOOLEAN] /\ abort_required \in [File -> BOOLEAN]
      /\ aborted \in [File -> BOOLEAN]
  <2>1. \A o \in Offsets(f) : part[f][o] # "failed"
    BY <1>1, NoneLeft, Zenon
  <2>2. EndInv(f)
    BY Zenon DEF IInv, FileInv
  <2> QED
    BY <1>1, <2>1, <2>2, Zenon DEF IInv, TypeOK, EndInv
<1>3. CASE failed[f]
  <2>1. /\ Finish(f, "Failed") /\ UNCHANGED terminal
        /\ aborted' = [aborted EXCEPT ![f] = @ \/ abort_required[f]]
    BY <1>3, Zenon DEF Settle, MustFail
  <2>2. /\ aborted' \in [File -> BOOLEAN] /\ \A h \in File \ {f} : aborted'[h] = aborted[h]
        /\ abort_required[f] => aborted'[f]
    BY <1>2, <2>1, Zenon
  <2>3. Ends(f, "Failed")
    BY <1>1, <1>2, <2>1, <2>2, Zenon DEF Ends
  <2> QED
    BY <2>3, FileEnds, Zenon
<1>4. CASE ~failed[f]
  <2>1. CASE cancelled[f] \/ Token(f)
    <3>1. FinishStopped(f) /\ UNCHANGED <<terminal, aborted>>
      BY <1>4, <2>1, Zenon DEF Settle, MustFail
    <3>2. PICK ev \in {"Failed", "Canceled"} : Finish(f, ev)
      BY <3>1, StoppedFacts, Zenon
    <3>3. Ends(f, ev)
      BY <1>1, <1>2, <1>4, <3>1, <3>2, Zenon DEF Ends
    <3> QED
      BY <3>3, FileEnds, Zenon
  <2>2. CASE ~(cancelled[f] \/ Token(f)) /\ ~IsComplete(Cut(f), window[f])
    <3>1. Finish(f, "Failed") /\ UNCHANGED <<terminal, aborted>>
      BY <1>4, <2>2, Zenon DEF Settle, MustFail
    <3>2. Ends(f, "Failed")
      BY <1>1, <1>2, <1>4, <3>1, Zenon DEF Ends
    <3> QED
      BY <3>2, FileEnds, Zenon
  <2>3. CASE ~(cancelled[f] \/ Token(f)) /\ IsComplete(Cut(f), window[f])
    <3>1. ClaimOrStop(f) /\ UNCHANGED aborted
      BY <1>4, <2>3, Zenon DEF Settle, MustFail
    <3>2. stored[f] = Offsets(f)
      BY <1>1, <2>3, CompleteIsWhole, Zenon
    <3> QED
      BY <1>1, <1>2, <1>4, <3>1, <3>2, ClaimsOrStops, Zenon
  <2> QED
    BY <2>1, <2>2, <2>3, Zenon
<1> QED
  BY <1>3, <1>4, Zenon

\* complete() returns.
LEMMA Completes ==
  ASSUME NEW f \in File, IInv, Completed(f) \/ NotCompleted(f)
  PROVE  IInv'
<1>1. /\ driver[f] = "claimed"
      /\ UNCHANGED <<start, window, part, failed, cancelled, terminal, interrupted, waiters,
                     reported, stored>>
  BY Zenon DEF Completed, NotCompleted
<1>2. /\ LiveParts(f) = {} /\ ~acked[f] /\ ~failed[f] /\ ~abort_required[f]
      /\ stored[f] = Offsets(f)
      /\ acked \in [File -> BOOLEAN] /\ abort_required \in [File -> BOOLEAN]
      /\ aborted \in [File -> BOOLEAN]
  <2>1. LiveParts(f) = {} /\ ~failed[f] /\ stored[f] = Offsets(f)
    BY <1>1, Zenon DEF IInv, FileInv, PhaseInv, StoreInv, EndInv, Running
  <2>2. EndInv(f) /\ \A o \in Offsets(f) : part[f][o] # "failed"
    BY <2>1, NoneLeft, Zenon DEF IInv, FileInv
  <2> QED
    BY <1>1, <2>1, <2>2, Zenon DEF IInv, TypeOK, EndInv
<1>3. CASE Completed(f)
  <2>1. PICK ev \in {"Completed", "Failed"} : Finish(f, ev)
    BY <1>3, Zenon DEF Completed
  <2>2. acked' = [acked EXCEPT ![f] = TRUE] /\ UNCHANGED <<abort_required, aborted>>
    BY <1>3, Zenon DEF Completed
  <2>3. acked' \in [File -> BOOLEAN] /\ \A h \in File \ {f} : acked'[h] = acked[h]
    BY <1>2, <2>2, Zenon
  <2>4. Ends(f, ev)
    BY <1>1, <1>2, <2>1, <2>2, <2>3, Zenon DEF Ends
  <2> QED
    BY <2>4, FileEnds, Zenon
<1>4. CASE NotCompleted(f)
  <2>1. Finish(f, "Failed") /\ UNCHANGED acked
    BY <1>4, Zenon DEF NotCompleted
  <2>2. /\ abort_required' \in [File -> BOOLEAN] /\ aborted' \in [File -> BOOLEAN]
        /\ \A h \in File \ {f} : abort_required'[h] = abort_required[h] /\ aborted'[h] = aborted[h]
        /\ abort_required'[f] => DirOf[f] = "Upload" /\ aborted'[f]
    <3>1. CASE DropSession(f)
      BY <3>1, DropFacts, Zenon
    <3>2. CASE ~DropSession(f)
      <4>1. /\ UNCHANGED abort_required
            /\ \E changed \in BOOLEAN :
                 aborted' = [aborted EXCEPT ![f] = @ \/ (changed /\ DirOf[f] = "Upload")]
        BY <1>4, <3>2, Zenon DEF NotCompleted
      <4>2. aborted' \in [File -> BOOLEAN] /\ \A h \in File \ {f} : aborted'[h] = aborted[h]
        BY <1>2, <4>1, Zenon
      <4> QED
        BY <1>2, <4>1, <4>2, Zenon
    <3> QED
      BY <3>1, <3>2, Zenon
  <2>3. Ends(f, "Failed")
    BY <1>1, <1>2, <2>1, <2>2, Zenon DEF Ends
  <2> QED
    BY <2>3, FileEnds, Zenon
<1> QED
  BY <1>3, <1>4, Zenon

\* A stop moves the gate and may interrupt the parts.
LEMMA StopsRequested ==
  ASSUME NEW f \in File, IInv, RequestPause(f) \/ RequestCancel(f)
  PROVE  IInv'
<1>1. PICK gate \in GateState : RequestStop(f, gate)
  <2>1. terminal[f] \in GateState
    BY Zenon DEF IInv, TypeOK
  <2>2. BeginPause(terminal[f]) \in GateState /\ BeginCancel(terminal[f]) \in GateState
    BY <2>1 DEF BeginPause, BeginCancel, GateState, PAUSING, CANCELING,
       COMPLETING_PAUSE_PENDING, COMPLETING_CANCEL_PENDING
  <2> QED
    BY <2>2, Zenon DEF RequestPause, RequestCancel
<1>2. UNCHANGED <<driver, start, window, part, failed, cancelled, waiters, outbox, reported,
                  stored, acked, abort_required, aborted>>
  BY <1>1, Zenon DEF RequestStop
<1>3. /\ interrupted[f] => interrupted'[f]
      /\ \A h \in File \ {f} : terminal'[h] = terminal[h] /\ interrupted'[h] = interrupted[h]
  BY <1>1, Zenon DEF RequestStop, IInv, TypeOK
<1>4. TypeOK'
  <2>1. terminal' \in [File -> GateState]
    BY <1>1, Zenon DEF RequestStop, IInv, TypeOK
  <2>2. interrupted' \in [File -> BOOLEAN]
    BY <1>1, Zenon DEF RequestStop, IInv, TypeOK, InterruptNow
  <2> QED
    BY <1>2, <2>1, <2>2, Zenon DEF IInv, TypeOK
<1>5. \A h \in File \ {f} : Same(h)
  BY <1>2, <1>3, Zenon DEF Same
<1>6. QueueIsLive'
  BY <1>2, QueueStays, Zenon
<1>7. FileInv(f)'
  <2>1. FileInv(f) /\ LiveParts(f)' = LiveParts(f) /\ Cut(f)' = Cut(f)
    BY <1>2, Zenon DEF IInv, LiveParts, Cut
  <2>2. \A o \in Offsets(f) : PartBlock(f, o)' = PartBlock(f, o)
    BY <2>1, Zenon DEF PartBlock
  <2>3. PhaseInv(f)' /\ StoreInv(f)' /\ WindowInv(f)'
    BY <1>2, <2>1, <2>2, Zenon DEF PhaseInv, StoreInv, WindowInv, FileInv
  <2>4. EndInv(f)'
    BY <1>2, <1>3, <2>1, Zenon DEF EndInv, FileInv
  <2> QED
    BY <2>3, <2>4, Zenon DEF FileInv
<1> QED
  BY <1>4, <1>5, <1>6, <1>7, FileStep, Zenon

\* prepare found a prefix in place.
LEMMA Prepares ==
  ASSUME NEW f \in File, Constants, IInv, Prepared(f)
  PROVE  IInv'
<1>1. PICK from \in Starts[f] : /\ start' = [start EXCEPT ![f] = from]
                                /\ reported' = [reported EXCEPT ![f] = from]
                                /\ stored' = [stored EXCEPT ![f] = 0 .. from - 1]
  BY Zenon DEF Prepared
<1>2. from \in Nat /\ from <= Total[f] /\ Total[f] \in Nat
  BY Zenon DEF Constants
<1>3. /\ driver[f] = "prepare" /\ driver' = [driver EXCEPT ![f] = "begin"]
      /\ UNCHANGED <<window, part, failed, cancelled, terminal, interrupted, waiters, outbox,
                     acked, abort_required, aborted>>
  BY Zenon DEF Prepared
<1>4. /\ driver'[f] = "begin" /\ start'[f] = from /\ reported'[f] = from
      /\ stored'[f] = 0 .. from - 1
      /\ \A h \in File \ {f} : /\ driver'[h] = driver[h] /\ start'[h] = start[h]
                               /\ reported'[h] = reported[h] /\ stored'[h] = stored[h]
  BY <1>1, <1>3, Zenon DEF IInv, TypeOK
<1>5. TypeOK'
  <2>1. driver' \in [File -> {"prepare", "begin", "fill", "join", "drain", "claimed", "exit"}]
    BY <1>3 DEF IInv, TypeOK
  <2>2. 0 .. from - 1 \in SUBSET Nat
    BY <1>2
  <2>3. start' \in [File -> Nat] /\ reported' \in [File -> Nat] /\ stored' \in [File -> SUBSET Nat]
    BY <1>1, <1>2, <2>2, Zenon DEF IInv, TypeOK
  <2> QED
    BY <1>3, <2>1, <2>3, Zenon DEF IInv, TypeOK
<1>6. \A h \in File \ {f} : Same(h)
  BY <1>3, <1>4, Zenon DEF Same
<1>7. QueueIsLive'
  BY <1>3, QueueStays, Zenon
<1>8. FileInv(f)'
  <2>1. FileInv(f) /\ LiveParts(f)' = LiveParts(f)
    BY <1>3, Zenon DEF IInv, LiveParts
  <2>2. PhaseInv(f)' /\ WindowInv(f)'
    BY <1>2, <1>3, <1>4, <2>1, Zenon DEF PhaseInv, WindowInv, FileInv, Running
  <2>3. EndInv(f)'
    BY <1>3, <1>4, <2>1, Zenon DEF EndInv, FileInv
  <2>4. 0 .. from - 1 \subseteq Offsets(f)
    BY <1>2 DEF Offsets
  <2>5. /\ \A o \in Offsets(f) : part[f][o] = "idle"
        /\ ~acked[f] /\ outbox[f] = "none"
    BY <1>3, <2>1, Zenon DEF FileInv, PhaseInv, EndInv
  <2>6. StoreInv(f)'
    BY <1>3, <1>4, <2>4, <2>5, Zenon DEF StoreInv
  <2> QED
    BY <2>2, <2>3, <2>6, Zenon DEF FileInv
<1> QED
  BY <1>5, <1>6, <1>7, <1>8, FileStep, Zenon

-----------------------------------------------------------------------------
(* The window and its parts                                                *)

\* One part of one file changes its state.
LEMMA PartChanges ==
  ASSUME NEW f \in File, NEW o \in Offsets(f), NEW state \in PartStates, TypeOK,
         part' = [part EXCEPT ![f][o] = state]
  PROVE  /\ part' \in [File -> UNION {[Offsets(h) -> PartStates] : h \in File}]
         /\ \A h \in File : part'[h] \in [Offsets(h) -> PartStates]
         /\ part'[f][o] = state
         /\ \A p \in Offsets(f) \ {o} : part'[f][p] = part[f][p]
         /\ \A h \in File \ {f} : part'[h] = part[h]
<1>1. /\ part \in [File -> UNION {[Offsets(h) -> PartStates] : h \in File}]
      /\ \A h \in File : part[h] \in [Offsets(h) -> PartStates]
  BY Zenon DEF TypeOK
<1>2. part'[f] = [part[f] EXCEPT ![o] = state] /\ \A h \in File \ {f} : part'[h] = part[h]
  BY <1>1, Zenon
<1>3. part'[f] \in [Offsets(f) -> PartStates]
  BY <1>1, <1>2, Zenon
<1>4. \A h \in File : part'[h] \in [Offsets(h) -> PartStates]
  BY <1>1, <1>2, <1>3, Zenon
<1>5. part' = [h \in File |-> part'[h]]
  BY <1>1, Zenon
<1>6. \A h \in File : part'[h] \in UNION {[Offsets(g) -> PartStates] : g \in File}
  BY <1>4, Zenon
<1>7. part' \in [File -> UNION {[Offsets(h) -> PartStates] : h \in File}]
  BY <1>5, <1>6, Zenon
<1>8. part'[f][o] = state /\ \A p \in Offsets(f) \ {o} : part'[f][p] = part[f][p]
  BY <1>1, <1>2, Zenon
<1> QED
  BY <1>2, <1>4, <1>7, <1>8, Zenon

\* A file has finitely many parts.
LEMMA LiveFinite ==
  ASSUME Constants, NEW f \in File
  PROVE  IsFiniteSet(LiveParts(f)) /\ Cardinality(LiveParts(f)) \in Nat
<1>1. Total[f] - 1 \in Int /\ 0 \in Int
  BY DEF Constants
<1>2. IsFiniteSet(Offsets(f))
  BY <1>1, FS_Interval, Zenon DEF Offsets
<1>3. LiveParts(f) \in SUBSET Offsets(f)
  BY Zenon DEF LiveParts
<1>4. IsFiniteSet(LiveParts(f))
  BY <1>2, <1>3, FS_Subset, Zenon
<1> QED
  BY <1>4, FS_CardinalityType, Zenon

\* A step of a part that does not wait leaves the queue live.
LEMMA QueueSpared ==
  ASSUME NEW f \in File, NEW o \in Offsets(f), IInv, UNCHANGED waiters,
         part[f][o] # "waiting",
         \A p \in Offsets(f) \ {o} : part'[f][p] = part[f][p],
         \A h \in File \ {f} : part'[h] = part[h]
  PROVE  QueueIsLive'
<1>1. ASSUME NEW p \in Places, part[p[1]][p[2]] = "waiting"
      PROVE  part'[p[1]][p[2]] = "waiting"
  <2>1. p[1] \in File /\ p[2] \in Offsets(p[1])
    BY DEF Places
  <2>2. CASE p[1] = f
    BY <1>1, <2>1, <2>2, Zenon
  <2>3. CASE p[1] # f
    BY <1>1, <2>1, <2>3, Zenon
  <2> QED
    BY <2>2, <2>3, Zenon
<1> QED
  BY <1>1, QueueStays, Zenon

\* The window opens at the offset prepare returned.
LEMMA WindowOpens ==
  ASSUME NEW f \in File, Constants, IInv, OpenWindow(f)
  PROVE  IInv'
<1>1. /\ driver[f] = "begin" /\ start[f] < Total[f]
      /\ window' = [window EXCEPT ![f] = NewWindow(Cut(f))]
      /\ driver' = [driver EXCEPT ![f] = "fill"]
      /\ UNCHANGED <<start, part, failed, cancelled, terminal, interrupted, waiters, outbox,
                     reported, stored, acked, abort_required, aborted>>
  BY Zenon DEF OpenWindow
<1>2. /\ Cut(f).start = start[f] /\ Cut(f).chunk = Chunk[f] /\ Cut(f).total = Total[f]
      /\ start[f] \in Nat /\ Total[f] \in Nat /\ Chunk[f] \in Nat \ {0} /\ start[f] <= Total[f]
  BY CutIsGrid, Zenon DEF IInv, FileInv, PhaseInv
<1> DEFINE w == [next_dispatch |-> start[f], completed |-> {}, watermark |-> start[f], in_flight |-> 0]
<1>3. NewWindow(Cut(f)) = w
  BY <1>2 DEF NewWindow, Least
<1>4. /\ driver'[f] = "fill" /\ window'[f] = w
      /\ \A h \in File \ {f} : driver'[h] = driver[h] /\ window'[h] = window[h]
  BY <1>1, <1>3, Zenon DEF IInv, TypeOK
<1>5. TypeOK'
  <2>1. driver' \in [File -> {"prepare", "begin", "fill", "join", "drain", "claimed", "exit"}]
    BY <1>1 DEF IInv, TypeOK
  <2>2. w \in Windows
    BY <1>2 DEF Windows
  <2>3. window' \in [File -> Windows]
    BY <1>1, <1>3, <2>2, Zenon DEF IInv, TypeOK
  <2> QED
    BY <1>1, <2>1, <2>3, Zenon DEF IInv, TypeOK
<1>6. \A h \in File \ {f} : Same(h)
  BY <1>1, <1>4, Zenon DEF Same
<1>7. QueueIsLive'
  BY <1>1, QueueStays, Zenon
<1>8. FileInv(f)'
  <2>1. FileInv(f) /\ LiveParts(f)' = LiveParts(f) /\ LiveParts(f) = {} /\ Cut(f)' = Cut(f)
    BY <1>1, Zenon DEF IInv, FileInv, PhaseInv, LiveParts, Cut, Running
  <2>2. \A o \in Offsets(f) : part[f][o] = "idle"
    BY <1>1, <2>1, Zenon DEF FileInv, PhaseInv
  <2>3. PhaseInv(f)'
    BY <1>1, <1>4, <2>1, Zenon DEF PhaseInv, FileInv, Running
  <2>4. StoreInv(f)'
    BY <1>1, <1>4, <2>1, <2>2, Zenon DEF StoreInv, FileInv
  <2>5. EndInv(f)'
    BY <1>1, <1>4, <2>1, <2>2, Zenon DEF EndInv, PhaseInv, FileInv
  <2>6. start[f] \in Boundaries(Cut(f))
    BY <1>2 DEF Boundaries
  <2>7. w.next_dispatch = start[f] /\ w.watermark = start[f] /\ w.in_flight = 0 /\ w.completed = {}
    OBVIOUS
  <2>8. reported[f] = start[f] /\ Cardinality(LiveParts(f)) = 0
    BY <1>1, <2>1, FS_EmptySet, Zenon DEF FileInv, PhaseInv
  <2> HIDE DEF w
  <2>9. w.in_flight <= MaxParts[f]
    <3>1. MaxParts[f] \in Nat \ {0}
      BY Zenon DEF Constants
    <3> QED
      BY <2>7, <3>1
  <2>10. WindowInv(f)'
    BY <1>1, <1>4, <2>1, <2>2, <2>6, <2>7, <2>8, <2>9, Zenon DEF WindowInv
  <2> QED
    BY <2>3, <2>4, <2>5, <2>10, Zenon DEF FileInv
<1> QED
  BY <1>5, <1>6, <1>7, <1>8, FileStep, Zenon

\* A window in which one more part is in flight.
LEMMA WindowTakes ==
  ASSUME NEW w \in Windows, NEW e \in Nat
  PROVE  LET v == [w EXCEPT !.next_dispatch = e, !.in_flight = @ + 1]
         IN  /\ v \in Windows /\ v.next_dispatch = e /\ v.in_flight = w.in_flight + 1
             /\ v.completed = w.completed /\ v.watermark = w.watermark
<1> DEFINE u == [w EXCEPT !.next_dispatch = e]
<1>1. /\ u \in Windows /\ u.next_dispatch = e /\ u.completed = w.completed
      /\ u.watermark = w.watermark /\ u.in_flight = w.in_flight
  BY DEF Windows
<1> DEFINE v == [u EXCEPT !.in_flight = u.in_flight + 1]
<1>2. /\ v \in Windows /\ v.in_flight = u.in_flight + 1 /\ v.completed = u.completed
      /\ v.watermark = u.watermark /\ v.next_dispatch = u.next_dispatch
  <2> HIDE DEF u
  <2> QED
    BY <1>1 DEF Windows
<1>3. v = [w EXCEPT !.next_dispatch = e, !.in_flight = @ + 1]
  BY <1>1, Zenon
<1> HIDE DEF v, u
<1> QED
  BY <1>1, <1>2, <1>3, Zenon

\* take_dispatch hands out the next part, which was never handed out before.
LEMMA Dispatches ==
  ASSUME NEW f \in File, Constants, IInv, driver[f] = "fill", CanDispatch(Cut(f), window[f]),
         part' = [part EXCEPT ![f][window[f].next_dispatch] = "spawned"],
         window' = [window EXCEPT ![f] = TakeDispatch(Cut(f), @)],
         UNCHANGED <<driver, start, failed, cancelled, terminal, interrupted, waiters, outbox,
                     reported, stored, acked, abort_required, aborted>>
  PROVE  IInv'
<1> DEFINE cut == Cut(f)
           w == window[f]
           v == TakeDispatch(cut, w)
<1>1. PICK o \in Nat : o = w.next_dispatch
  BY DEF IInv, TypeOK, Windows
<1>2. /\ Grid(cut) /\ cut.total = Total[f] /\ cut.start = start[f]
      /\ start[f] \in Nat /\ Total[f] \in Nat
  BY CutIsGrid, Zenon DEF IInv, FileInv
<1>3. /\ o \in Boundaries(cut) /\ w.in_flight = Cardinality(LiveParts(f)) /\ FileInv(f)
      /\ \A p \in Offsets(f) : part[f][p] # "idle" => p \in Boundaries(cut) /\ p < o
  BY <1>1, Zenon DEF IInv, FileInv, WindowInv
<1>4. o < cut.total /\ o \in Offsets(f)
  BY <1>1, <1>2 DEF CanDispatch, Offsets
<1>5. part[f][o] = "idle" /\ o \notin LiveParts(f)
  <2>1. ~(o < o)
    OBVIOUS
  <2>2. part[f][o] = "idle"
    BY <1>3, <1>4, <2>1, Zenon
  <2> QED
    BY <2>2 DEF LiveParts, Unfinished, Finished
<1>6. PICK e \in Boundaries(cut) : e = PartEnd(cut, o) /\ o < e
  BY <1>2, <1>3, <1>4, NextBoundary, Zenon
<1>7. Boundaries(cut) \subseteq Nat
  BY <1>2 DEF Boundaries
<1>8. /\ v.next_dispatch = e /\ v.in_flight = w.in_flight + 1 /\ v.completed = w.completed
      /\ v.watermark = w.watermark
      /\ v \in Windows
  <2>1. w \in Windows
    BY Zenon DEF IInv, TypeOK, Windows
  <2>2. v = [w EXCEPT !.next_dispatch = e, !.in_flight = @ + 1] /\ e \in Nat
    BY <1>1, <1>6, <1>7, Zenon DEF TakeDispatch
  <2> HIDE DEF v, w
  <2> QED
    BY <2>1, <2>2, WindowTakes, Zenon
<1>9. window'[f] = v /\ \A h \in File \ {f} : window'[h] = window[h]
  BY Zenon DEF IInv, TypeOK
<1>10. "spawned" \in PartStates /\ "spawned" \in Unfinished
  BY DEF PartStates, Unfinished
<1>11. /\ part' \in [File -> UNION {[Offsets(h) -> PartStates] : h \in File}]
       /\ \A h \in File : part'[h] \in [Offsets(h) -> PartStates]
       /\ part'[f][o] = "spawned"
       /\ \A p \in Offsets(f) \ {o} : part'[f][p] = part[f][p]
       /\ \A h \in File \ {f} : part'[h] = part[h]
  <2>1. part' = [part EXCEPT ![f][o] = "spawned"] /\ TypeOK
    BY <1>1, Zenon DEF IInv
  <2> QED
    BY <1>4, <1>10, <2>1, PartChanges, ZenonT(60)
<1> HIDE DEF v, w, cut
<1>12. TypeOK'
  <2>1. window' \in [File -> Windows]
    BY <1>8, Zenon DEF IInv, TypeOK, v, w, cut
  <2> QED
    BY <1>11, <2>1, Zenon DEF IInv, TypeOK
<1>13. \A h \in File \ {f} : Same(h)
  BY <1>9, <1>11, Zenon DEF Same
<1>14. QueueIsLive'
  BY <1>4, <1>5, <1>11, QueueSpared
<1>15. LiveParts(f)' = LiveParts(f) \cup {o}
  <2>1. \A p : p \in LiveParts(f)' <=> p \in LiveParts(f) \/ p = o
    BY <1>4, <1>10, <1>11, Zenon DEF LiveParts
  <2> QED
    BY <2>1, Zenon
<1>16. Cardinality(LiveParts(f)') = w.in_flight + 1
  <2>1. IsFiniteSet(LiveParts(f))
    BY LiveFinite, Zenon
  <2>2. Cardinality(LiveParts(f) \cup {o}) = Cardinality(LiveParts(f)) + 1
    BY <1>5, <2>1, FS_AddElement, Zenon
  <2> QED
    BY <1>3, <1>15, <2>2, Zenon
<1>17. FileInv(f)'
  <2>1. Cut(f)' = cut /\ (\A p \in Offsets(f) : PartBlock(f, p)' = PartBlock(f, p))
    BY Zenon DEF Cut, PartBlock, cut
  <2>2. PhaseInv(f)'
    BY <1>3, Zenon DEF PhaseInv, FileInv, Running
  <2>3. StoreInv(f)'
    BY <1>3, <1>11, <2>1, ZenonT(60) DEF StoreInv, FileInv
  <2>4. EndInv(f)'
    BY <1>3, <1>5, <1>11, Zenon DEF EndInv, FileInv
  <2>5. \A p \in Offsets(f) : part'[f][p] # "idle" => p \in Boundaries(cut) /\ p < e
    <3>1. \A p \in Offsets(f) : p < o => p < e
      BY <1>2, <1>6, <1>7 DEF Offsets
    <3> QED
      BY <1>3, <1>6, <1>11, <3>1, Zenon
  <2>6. /\ w.watermark \in Boundaries(cut) /\ reported[f] = w.watermark
        /\ \A p \in w.completed : p \in Offsets(f) /\ PartBlock(f, p) \subseteq stored[f]
    BY <1>3, Zenon DEF FileInv, WindowInv, w, cut
  <2>7. /\ window'[f].next_dispatch = e /\ window'[f].in_flight = Cardinality(LiveParts(f)')
        /\ window'[f].completed = w.completed /\ window'[f].watermark = w.watermark
    BY <1>8, <1>9, <1>16, Zenon
  <2>8. window'[f].in_flight <= MaxParts[f]
    <3>1. w.in_flight < MaxParts[f] /\ MaxParts[f] \in Nat /\ w.in_flight \in Nat
      <4>1. Cut(f).max_in_flight = MaxParts[f]
        BY DEF Cut
      <4>2. w.in_flight < MaxParts[f]
        BY <4>1, Zenon DEF CanDispatch, w
      <4>3. Cardinality(LiveParts(f)) \in Nat
        BY LiveFinite, Zenon
      <4>4. MaxParts[f] \in Nat \ {0}
        BY Zenon DEF Constants
      <4> QED
        BY <1>3, <4>2, <4>3, <4>4
    <3>2. window'[f].in_flight = w.in_flight + 1
      BY <1>8, <1>9, Zenon
    <3> QED
      BY <3>1, <3>2
  <2>9. WindowInv(f)'
    BY <1>6, <2>1, <2>5, <2>6, <2>7, <2>8, Zenon DEF WindowInv
  <2> QED
    BY <2>2, <2>3, <2>4, <2>9, Zenon DEF FileInv
<1> QED
  BY <1>12, <1>13, <1>14, <1>17, FileStep, Zenon

\* The dispatch loop has handed out what it may.
LEMMA FillEnds ==
  ASSUME NEW f \in File, IInv, driver[f] = "fill", driver' = [driver EXCEPT ![f] = "join"],
         UNCHANGED <<start, window, part, failed, cancelled, terminal, interrupted, waiters,
                     outbox, reported, stored, acked, abort_required, aborted>>
  PROVE  IInv'
<1>1. driver'[f] = "join" /\ \A h \in File \ {f} : driver'[h] = driver[h]
  BY Zenon DEF IInv, TypeOK
<1>2. TypeOK'
  <2>1. driver' \in [File -> {"prepare", "begin", "fill", "join", "drain", "claimed", "exit"}]
    BY DEF IInv, TypeOK
  <2> QED
    BY <2>1, Zenon DEF IInv, TypeOK
<1>3. \A h \in File \ {f} : Same(h)
  BY <1>1, Zenon DEF Same
<1>4. QueueIsLive'
  BY QueueStays, Zenon
<1>5. FileInv(f)'
  <2>1. FileInv(f) /\ LiveParts(f)' = LiveParts(f) /\ Cut(f)' = Cut(f)
    BY Zenon DEF IInv, LiveParts, Cut
  <2>2. \A o \in Offsets(f) : PartBlock(f, o)' = PartBlock(f, o)
    BY <2>1, Zenon DEF PartBlock
  <2>3. PhaseInv(f)' /\ StoreInv(f)'
    BY <1>1, <2>1, <2>2, Zenon DEF PhaseInv, StoreInv, FileInv, Running
  <2>4. WindowInv(f)' /\ EndInv(f)'
    BY <1>1, <2>1, <2>2, Zenon DEF WindowInv, EndInv, FileInv
  <2> QED
    BY <2>3, <2>4, Zenon DEF FileInv
<1> QED
  BY <1>2, <1>3, <1>4, <1>5, FileStep, Zenon

\* A task leaves the JoinSet: there is one part less.
LEMMA PartJoined ==
  ASSUME NEW f \in File, NEW o \in Offsets(f), Constants, IInv, part[f][o] \in Finished,
         part' = [part EXCEPT ![f][o] = "joined"], UNCHANGED waiters
  PROVE  /\ part' \in [File -> UNION {[Offsets(h) -> PartStates] : h \in File}]
         /\ \A h \in File : part'[h] \in [Offsets(h) -> PartStates]
         /\ part'[f][o] = "joined"
         /\ \A p \in Offsets(f) \ {o} : part'[f][p] = part[f][p]
         /\ \A h \in File \ {f} : part'[h] = part[h]
         /\ LiveParts(f)' = LiveParts(f) \ {o}
         /\ Cardinality(LiveParts(f)) \in Nat \ {0}
         /\ Cardinality(LiveParts(f)') = Cardinality(LiveParts(f)) - 1
         /\ QueueIsLive'
<1>1. "joined" \in PartStates /\ "joined" \notin Unfinished \cup Finished
      /\ part[f][o] # "waiting"
  BY DEF PartStates, Unfinished, Finished
<1>2. /\ part' \in [File -> UNION {[Offsets(h) -> PartStates] : h \in File}]
      /\ \A h \in File : part'[h] \in [Offsets(h) -> PartStates]
      /\ part'[f][o] = "joined"
      /\ \A p \in Offsets(f) \ {o} : part'[f][p] = part[f][p]
      /\ \A h \in File \ {f} : part'[h] = part[h]
  BY <1>1, PartChanges, Zenon DEF IInv
<1>3. o \in LiveParts(f)
  BY Zenon DEF LiveParts
<1>4. LiveParts(f)' = LiveParts(f) \ {o}
  <2>1. \A p : p \in LiveParts(f)' <=> p \in LiveParts(f) /\ p # o
    BY <1>1, <1>2, Zenon DEF LiveParts
  <2> QED
    BY <2>1, Zenon
<1>5. IsFiniteSet(LiveParts(f)) /\ Cardinality(LiveParts(f)) \in Nat
  BY LiveFinite, Zenon
<1>6. Cardinality(LiveParts(f)) # 0
  BY <1>3, <1>5, FS_EmptySet, Zenon
<1>7. Cardinality(LiveParts(f) \ {o}) = Cardinality(LiveParts(f)) - 1
  BY <1>3, <1>5, FS_RemoveElement, Zenon
<1>8. QueueIsLive'
  BY <1>1, <1>2, QueueSpared, Zenon
<1> QED
  BY <1>2, <1>4, <1>5, <1>6, <1>7, <1>8, Zenon

\* With one part less the window keeps its bound.
LEMMA OneLess ==
  ASSUME NEW f \in File, Constants, IInv, driver[f] = "join",
         Cardinality(LiveParts(f)) \in Nat \ {0},
         Cardinality(LiveParts(f)') = Cardinality(LiveParts(f)) - 1
  PROVE  Cardinality(LiveParts(f)') <= MaxParts[f]
<1>1. MaxParts[f] \in Nat \ {0}
  BY Zenon DEF Constants
<1>2. Cardinality(LiveParts(f)) <= MaxParts[f]
  BY Zenon DEF IInv, FileInv, WindowInv
<1> QED
  BY <1>1, <1>2

\* A part panicked, or is drained after that.
LEMMA JoinsPanicked ==
  ASSUME NEW f \in File, NEW o \in Offsets(f), Constants, IInv,
         JoinPanicked(f, o) \/ Drain(f, o)
  PROVE  IInv'
<1>1. /\ driver[f] \in {"join", "drain"} /\ part[f][o] \in Finished
      /\ part' = [part EXCEPT ![f][o] = "joined"]
      /\ driver' = [driver EXCEPT ![f] = "drain"]
      /\ UNCHANGED <<start, window, failed, cancelled, terminal, interrupted, waiters, outbox,
                     reported, stored, acked, abort_required, aborted>>
  <2>1. CASE JoinPanicked(f, o)
    BY <2>1, Zenon DEF JoinPanicked, Joins, Finished
  <2>2. CASE Drain(f, o)
    <3>1. driver' = [driver EXCEPT ![f] = "drain"]
      BY <2>2, Zenon DEF Drain, IInv, TypeOK
    <3> QED
      BY <2>2, <3>1, Zenon DEF Drain
  <2> QED
    BY <2>1, <2>2, Zenon
<1>2. /\ part' \in [File -> UNION {[Offsets(h) -> PartStates] : h \in File}]
      /\ \A h \in File : part'[h] \in [Offsets(h) -> PartStates]
      /\ part'[f][o] = "joined"
      /\ \A p \in Offsets(f) \ {o} : part'[f][p] = part[f][p]
      /\ \A h \in File \ {f} : part'[h] = part[h]
      /\ QueueIsLive'
  BY <1>1, PartJoined, ZenonT(60)
<1>3. driver'[f] = "drain" /\ \A h \in File \ {f} : driver'[h] = driver[h]
  BY <1>1, Zenon DEF IInv, TypeOK
<1>4. TypeOK'
  <2>1. driver' \in [File -> {"prepare", "begin", "fill", "join", "drain", "claimed", "exit"}]
    BY <1>1 DEF IInv, TypeOK
  <2> QED
    BY <1>1, <1>2, <2>1, Zenon DEF IInv, TypeOK
<1>5. \A h \in File \ {f} : Same(h)
  BY <1>1, <1>2, <1>3, Zenon DEF Same
<1>6. FileInv(f)'
  <2>1. FileInv(f) /\ \A p \in Offsets(f) : PartBlock(f, p)' = PartBlock(f, p)
    BY <1>1, Zenon DEF IInv, PartBlock, Cut
  <2>2. PhaseInv(f)' /\ WindowInv(f)'
    BY <1>1, <1>3, <2>1, Zenon DEF PhaseInv, WindowInv, FileInv, Running
  <2>3. StoreInv(f)'
    BY <1>1, <1>2, <1>3, <2>1, ZenonT(60) DEF StoreInv, FileInv
  <2>4. EndInv(f)'
    BY <1>1, <1>3, <2>1, Zenon DEF EndInv, FileInv
  <2> QED
    BY <2>2, <2>3, <2>4, Zenon DEF FileInv
<1> QED
  BY <1>2, <1>4, <1>5, <1>6, FileStep, Zenon

\* A part failed or saw the stop: its flag is raised, and the prefix stays.
LEMMA JoinsStopped ==
  ASSUME NEW f \in File, NEW o \in Offsets(f), Constants, IInv, JoinStopped(f, o)
  PROVE  IInv'
<1> DEFINE w == window[f]
           v == OnSettledWithoutProgress(w)
<1>1. /\ driver[f] = "join" /\ part[f][o] \in {"cancelled", "failed"}
      /\ part' = [part EXCEPT ![f][o] = "joined"]
      /\ window' = [window EXCEPT ![f] = OnSettledWithoutProgress(@)]
      /\ UNCHANGED <<driver, start, terminal, interrupted, waiters, outbox, reported, stored,
                     acked, abort_required, aborted>>
  BY Zenon DEF JoinStopped, Joins
<1>2. /\ failed' \in [File -> BOOLEAN] /\ cancelled' \in [File -> BOOLEAN]
      /\ \A h \in File \ {f} : failed'[h] = failed[h] /\ cancelled'[h] = cancelled[h]
      /\ failed[f] => failed'[f]
      /\ part[f][o] = "failed" => failed'[f]
      /\ cancelled'[f] => cancelled[f] \/ part[f][o] = "cancelled"
  <2>1. failed \in [File -> BOOLEAN] /\ cancelled \in [File -> BOOLEAN]
    BY Zenon DEF IInv, TypeOK
  <2>2. CASE part[f][o] = "cancelled"
    <3>1. cancelled' = [cancelled EXCEPT ![f] = TRUE] /\ UNCHANGED failed
      BY <2>2, Zenon DEF JoinStopped, Joins
    <3> QED
      BY <2>1, <2>2, <3>1, Zenon
  <2>3. CASE part[f][o] = "failed"
    <3>1. failed' = [failed EXCEPT ![f] = TRUE] /\ UNCHANGED cancelled
      BY <2>3, Zenon DEF JoinStopped, Joins
    <3> QED
      BY <2>1, <2>3, <3>1, Zenon
  <2> QED
    BY <1>1, <2>2, <2>3, Zenon
<1>3. part[f][o] \in Finished
  BY <1>1 DEF Finished
<1>4. /\ part' \in [File -> UNION {[Offsets(h) -> PartStates] : h \in File}]
      /\ \A h \in File : part'[h] \in [Offsets(h) -> PartStates]
      /\ part'[f][o] = "joined"
      /\ \A p \in Offsets(f) \ {o} : part'[f][p] = part[f][p]
      /\ \A h \in File \ {f} : part'[h] = part[h]
      /\ Cardinality(LiveParts(f)) \in Nat \ {0}
      /\ Cardinality(LiveParts(f)') = Cardinality(LiveParts(f)) - 1
      /\ QueueIsLive'
  BY <1>1, <1>3, PartJoined, ZenonT(60)
<1>5. FileInv(f) /\ w.in_flight = Cardinality(LiveParts(f))
  BY <1>1, Zenon DEF IInv, FileInv, WindowInv
<1>6. v = [w EXCEPT !.in_flight = w.in_flight - 1] /\ w.in_flight - 1 \in Nat
  BY <1>4, <1>5 DEF OnSettledWithoutProgress
<1>7. w \in Windows
  BY Zenon DEF IInv, TypeOK
<1> HIDE DEF v, w
<1>8. /\ v \in Windows /\ v.next_dispatch = w.next_dispatch /\ v.completed = w.completed
      /\ v.watermark = w.watermark /\ v.in_flight = w.in_flight - 1
  BY <1>6, <1>7 DEF Windows
<1>9. window'[f] = v /\ \A h \in File \ {f} : window'[h] = window[h]
  BY <1>1, Zenon DEF IInv, TypeOK, v, w
<1>10. TypeOK'
  <2>1. window' \in [File -> Windows]
    BY <1>1, <1>8, Zenon DEF IInv, TypeOK, v, w
  <2> QED
    BY <1>1, <1>2, <1>4, <2>1, Zenon DEF IInv, TypeOK
<1>11. \A h \in File \ {f} : Same(h)
  BY <1>1, <1>2, <1>4, <1>9, Zenon DEF Same
<1>12. FileInv(f)'
  <2>1. Cut(f)' = Cut(f) /\ \A p \in Offsets(f) : PartBlock(f, p)' = PartBlock(f, p)
    BY <1>1, Zenon DEF PartBlock, Cut
  <2>2. PhaseInv(f)'
    BY <1>1, <1>5, Zenon DEF PhaseInv, FileInv, Running
  <2>3. StoreInv(f)'
    BY <1>1, <1>4, <1>5, <2>1, ZenonT(60) DEF StoreInv, FileInv
  <2>4. EndInv(f)'
    <3>1. EndInv(f)
      BY <1>5, Zenon DEF FileInv
    <3>2. \A p \in Offsets(f) : part'[f][p] = "cancelled" => part[f][p] = "cancelled"
      BY <1>4, Zenon
    <3>3. ASSUME abort_required[f] PROVE failed'[f] \/ \E p \in Offsets(f) : part'[f][p] = "failed"
      BY <1>1, <1>2, <1>4, <3>1, <3>3, Zenon DEF EndInv
    <3>4. (cancelled'[f] \/ \E p \in Offsets(f) : part'[f][p] = "cancelled") => interrupted[f]
      BY <1>1, <1>2, <3>1, <3>2, Zenon DEF EndInv
    <3> QED
      BY <1>1, <3>1, <3>3, <3>4, Zenon DEF EndInv
  <2>5. /\ window'[f].next_dispatch = w.next_dispatch /\ window'[f].completed = w.completed
        /\ window'[f].watermark = w.watermark
        /\ window'[f].in_flight = Cardinality(LiveParts(f)')
    BY <1>4, <1>5, <1>8, <1>9, Zenon
  <2>6. /\ w.next_dispatch \in Boundaries(Cut(f))
        /\ w.watermark \in Boundaries(Cut(f)) /\ reported[f] = w.watermark
        /\ \A p \in w.completed : p \in Offsets(f) /\ PartBlock(f, p) \subseteq stored[f]
        /\ \A p \in Offsets(f) : part'[f][p] # "idle" =>
             p \in Boundaries(Cut(f)) /\ p < w.next_dispatch
    <3>1. part[f][o] # "idle"
      BY <1>1
    <3> QED
      BY <1>1, <1>4, <1>5, <3>1, Zenon DEF FileInv, WindowInv, w
  <2>7. Cardinality(LiveParts(f)') <= MaxParts[f]
    BY <1>1, <1>4, <1>5, OneLess, Zenon
  <2>8. WindowInv(f)'
    <3>1. /\ window'[f].next_dispatch \in Boundaries(Cut(f)')
          /\ window'[f].watermark \in Boundaries(Cut(f)')
          /\ reported'[f] = window'[f].watermark
      BY <1>1, <2>1, <2>5, <2>6, Zenon
    <3>2. /\ window'[f].in_flight = Cardinality(LiveParts(f)')
          /\ window'[f].in_flight <= MaxParts[f]
      BY <2>5, <2>7, Zenon
    <3>3. \A p \in window'[f].completed :
            p \in Offsets(f) /\ PartBlock(f, p)' \subseteq stored'[f]
      BY <1>1, <2>1, <2>5, <2>6, Zenon
    <3>4. \A p \in Offsets(f) : part'[f][p] # "idle" =>
            p \in Boundaries(Cut(f)') /\ p < window'[f].next_dispatch
      BY <2>1, <2>5, <2>6, Zenon
    <3> QED
      BY <3>1, <3>2, <3>3, <3>4, Zenon DEF WindowInv
  <2> QED
    BY <2>2, <2>3, <2>4, <2>8, Zenon DEF FileInv
<1> QED
  BY <1>4, <1>10, <1>11, <1>12, FileStep, Zenon

Advanced(v, w, n, c, m) == v = [w EXCEPT !.in_flight = n, !.completed = c, !.watermark = m]

\* A window after a part is done.
LEMMA WindowAdvances ==
  ASSUME NEW w \in Windows, NEW n \in Nat, NEW c \in SUBSET Nat, NEW m \in Nat, NEW v,
         Advanced(v, w, n, c, m)
  PROVE  /\ v \in Windows /\ v.next_dispatch = w.next_dispatch /\ v.in_flight = n
         /\ v.completed = c /\ v.watermark = m
<1> DEFINE u == [w EXCEPT !.in_flight = n]
<1>1. /\ u \in Windows /\ u.next_dispatch = w.next_dispatch /\ u.completed = w.completed
      /\ u.watermark = w.watermark /\ u.in_flight = n
  BY DEF Windows
<1> DEFINE x == [u EXCEPT !.completed = c]
<1>2. /\ x \in Windows /\ x.next_dispatch = u.next_dispatch /\ x.in_flight = u.in_flight
      /\ x.watermark = u.watermark /\ x.completed = c
  <2> HIDE DEF u
  <2> QED
    BY <1>1 DEF Windows
<1> DEFINE y == [x EXCEPT !.watermark = m]
<1>3. /\ y \in Windows /\ y.next_dispatch = x.next_dispatch /\ y.in_flight = x.in_flight
      /\ y.completed = x.completed /\ y.watermark = m
  <2> HIDE DEF x, u
  <2> QED
    BY <1>2 DEF Windows
<1>4. v = y
  BY Zenon DEF Advanced
<1> HIDE DEF y, x, u
<1> QED
  BY <1>1, <1>2, <1>3, <1>4, Zenon

\* on_done: the watermark moves over the parts that are done, everything below
\* it is stored, and what lies above a hole is kept for later.
LEMMA OnDoneFacts ==
  ASSUME NEW f \in File, NEW o \in Offsets(f), Constants, IInv, driver[f] = "join",
         part[f][o] = "done", Cardinality(LiveParts(f)) \in Nat \ {0}
  PROVE  LET v == OnDone(Cut(f), window[f], o)
         IN  /\ v \in Windows /\ v.next_dispatch = window[f].next_dispatch
             /\ v.in_flight = Cardinality(LiveParts(f)) - 1
             /\ v.watermark \in Boundaries(Cut(f)) /\ v.watermark \in Nat
             /\ 0 .. v.watermark - 1 \subseteq stored[f]
             /\ \A p \in v.completed : p \in Offsets(f) /\ PartBlock(f, p) \subseteq stored[f]
<1> DEFINE cut == Cut(f)
           w == window[f]
           done == w.completed \cup {o}
           mark == Absorb(cut, w.watermark, done)
           rest == {p \in done : p >= mark}
           v == OnDone(cut, w, o)
<1>1. /\ Grid(cut) /\ cut.total = Total[f] /\ Total[f] \in Nat /\ cut.start = start[f]
      /\ start[f] \in Nat
  BY CutIsGrid, Zenon DEF IInv, FileInv
<1>2. /\ w.watermark \in Boundaries(cut) /\ reported[f] = w.watermark
      /\ w.in_flight = Cardinality(LiveParts(f))
      /\ \A p \in w.completed : p \in Offsets(f) /\ PartBlock(f, p) \subseteq stored[f]
  BY Zenon DEF IInv, FileInv, WindowInv
<1>3. 0 .. w.watermark - 1 \subseteq stored[f] /\ PartBlock(f, o) \subseteq stored[f]
  BY <1>2, Zenon DEF IInv, FileInv, StoreInv
<1>4. \A p \in done : p \in Offsets(f) /\ PartBlock(f, p) \subseteq stored[f]
  BY <1>2, <1>3, Zenon
<1>5. \A p \in Offsets(f) : p \in Nat /\ p < cut.total
  BY <1>1 DEF Offsets
<1>6. \A p \in done : p < cut.total /\ p .. PartEnd(cut, p) - 1 \subseteq stored[f]
  BY <1>4, <1>5, Zenon DEF PartBlock
<1>7. w \in Windows
  BY Zenon DEF IInv, TypeOK
<1>8. v = [w EXCEPT !.in_flight = w.in_flight - 1, !.completed = rest, !.watermark = mark]
  BY Zenon DEF OnDone
<1>9. rest \subseteq done
  BY Zenon
<1> HIDE DEF v, rest, mark, done, w, cut
<1>10. mark \in Boundaries(cut) /\ 0 .. mark - 1 \subseteq stored[f]
  <2>1. \A p \in done : p < cut.total
    BY <1>6, Zenon
  <2>2. mark \in Boundaries(cut)
    BY <1>1, <1>2, <2>1, AbsorbFacts, Zenon DEF mark
  <2>3. 0 .. mark - 1 \subseteq stored[f]
    BY <1>1, <1>2, <1>3, <1>6, PrefixGrows, Zenon DEF mark
  <2> QED
    BY <2>2, <2>3, Zenon
<1>11. mark \in Nat
  BY <1>1, <1>10 DEF Boundaries
<1>12. rest \in SUBSET Nat
  BY <1>4, <1>5, <1>9, Zenon
<1>13. w.in_flight - 1 \in Nat
  BY <1>2
<1>14. /\ v \in Windows /\ v.next_dispatch = w.next_dispatch /\ v.in_flight = w.in_flight - 1
       /\ v.completed = rest /\ v.watermark = mark
  <2>1. PICK n \in Nat, x \in Windows, c \in SUBSET Nat, m \in Nat :
          n = w.in_flight - 1 /\ x = w /\ c = rest /\ m = mark
    BY <1>7, <1>11, <1>12, <1>13, Zenon
  <2>2. Advanced(v, x, n, c, m)
    BY <1>8, <2>1, Zenon DEF Advanced
  <2>3. /\ v \in Windows /\ v.next_dispatch = x.next_dispatch /\ v.in_flight = n
        /\ v.completed = c /\ v.watermark = m
    BY <2>2, WindowAdvances
  <2> QED
    BY <2>1, <2>3, Zenon
<1> QED
  BY <1>2, <1>4, <1>9, <1>10, <1>11, <1>14, Zenon DEF v, w, cut

\* A part is done: the prefix moves, and the window is topped up if no part has
\* failed or seen a stop.
LEMMA JoinsDone ==
  ASSUME NEW f \in File, NEW o \in Offsets(f), Constants, IInv, JoinDone(f, o)
  PROVE  IInv'
<1> DEFINE v == OnDone(Cut(f), window[f], o)
<1>1. /\ driver[f] = "join" /\ part[f][o] = "done"
      /\ part' = [part EXCEPT ![f][o] = "joined"]
      /\ window' = [window EXCEPT ![f] = v]
      /\ reported' = [reported EXCEPT ![f] = IF v.watermark # window[f].watermark
                                             THEN v.watermark ELSE @]
      /\ driver' = [driver EXCEPT ![f] = IF Healthy(f) THEN "fill" ELSE "join"]
      /\ UNCHANGED <<start, failed, cancelled, terminal, interrupted, waiters, outbox, stored,
                     acked, abort_required, aborted>>
  BY Zenon DEF JoinDone, Joins
<1>2. part[f][o] \in Finished
  BY <1>1 DEF Finished
<1>3. /\ part' \in [File -> UNION {[Offsets(h) -> PartStates] : h \in File}]
      /\ \A h \in File : part'[h] \in [Offsets(h) -> PartStates]
      /\ part'[f][o] = "joined"
      /\ \A p \in Offsets(f) \ {o} : part'[f][p] = part[f][p]
      /\ \A h \in File \ {f} : part'[h] = part[h]
      /\ Cardinality(LiveParts(f)) \in Nat \ {0}
      /\ Cardinality(LiveParts(f)') = Cardinality(LiveParts(f)) - 1
      /\ QueueIsLive'
  BY <1>1, <1>2, PartJoined, ZenonT(60)
<1>4. /\ v \in Windows /\ v.next_dispatch = window[f].next_dispatch
      /\ v.in_flight = Cardinality(LiveParts(f)')
      /\ v.watermark \in Boundaries(Cut(f)) /\ v.watermark \in Nat
      /\ 0 .. v.watermark - 1 \subseteq stored[f]
      /\ \A p \in v.completed : p \in Offsets(f) /\ PartBlock(f, p) \subseteq stored[f]
  BY <1>1, <1>3, OnDoneFacts, Zenon
<1>5. FileInv(f) /\ reported[f] = window[f].watermark
  BY <1>1, Zenon DEF IInv, FileInv, WindowInv
<1> HIDE DEF v
<1>6. window'[f] = v /\ \A h \in File \ {f} : window'[h] = window[h]
  BY <1>1, Zenon DEF IInv, TypeOK
<1>7. reported' = [reported EXCEPT ![f] = v.watermark]
  BY <1>1, <1>5, Zenon
<1>8. reported'[f] = v.watermark /\ \A h \in File \ {f} : reported'[h] = reported[h]
  BY <1>7, Zenon DEF IInv, TypeOK
<1>9. /\ driver'[f] = IF Healthy(f) THEN "fill" ELSE "join"
      /\ \A h \in File \ {f} : driver'[h] = driver[h]
  BY <1>1, Zenon DEF IInv, TypeOK
<1>10. /\ driver'[f] \in {"fill", "join"} /\ (failed[f] => driver'[f] = "join")
       /\ driver'[f] \notin {"prepare", "begin", "claimed", "exit", "drain"}
  BY <1>9 DEF Healthy
<1>11. TypeOK'
  <2>1. window' \in [File -> Windows]
    BY <1>1, <1>4, Zenon DEF IInv, TypeOK
  <2>2. reported' \in [File -> Nat]
    BY <1>4, <1>7, Zenon DEF IInv, TypeOK
  <2>3. driver' \in [File -> {"prepare", "begin", "fill", "join", "drain", "claimed", "exit"}]
    <3>1. driver \in [File -> {"prepare", "begin", "fill", "join", "drain", "claimed", "exit"}]
      BY Zenon DEF IInv, TypeOK
    <3> QED
      BY <1>1, <3>1
  <2> QED
    BY <1>1, <1>3, <2>1, <2>2, <2>3, Zenon DEF IInv, TypeOK
<1>12. \A h \in File \ {f} : Same(h)
  BY <1>1, <1>3, <1>6, <1>8, <1>9, Zenon DEF Same
<1>13. FileInv(f)'
  <2>1. Cut(f)' = Cut(f) /\ \A p \in Offsets(f) : PartBlock(f, p)' = PartBlock(f, p)
    BY <1>1, Zenon DEF PartBlock, Cut
  <2>2. PhaseInv(f)'
    BY <1>1, <1>5, <1>10, Zenon DEF PhaseInv, FileInv, Running
  <2>3. StoreInv(f)'
    <3>1. StoreInv(f)
      BY <1>5, Zenon DEF FileInv
    <3>2. \A p \in Offsets(f) : part'[f][p] = "done" => PartBlock(f, p)' \subseteq stored'[f]
      BY <1>1, <1>3, <2>1, <3>1, ZenonT(60) DEF StoreInv
    <3>3. 0 .. reported'[f] - 1 \subseteq stored'[f]
      BY <1>1, <1>4, <1>8, Zenon
    <3> QED
      BY <1>1, <1>10, <3>1, <3>2, <3>3, Zenon DEF StoreInv
  <2>4. EndInv(f)'
    <3>1. EndInv(f)
      BY <1>5, Zenon DEF FileInv
    <3>2. \A p \in Offsets(f) : part'[f][p] = "cancelled" => part[f][p] = "cancelled"
      BY <1>3, Zenon
    <3>3. \A p \in Offsets(f) : part[f][p] = "failed" => part'[f][p] = "failed"
      BY <1>1, <1>3, Zenon
    <3> QED
      BY <1>1, <1>10, <3>1, <3>2, <3>3, Zenon DEF EndInv
  <2>5. /\ window[f].next_dispatch \in Boundaries(Cut(f))
        /\ \A p \in Offsets(f) : part'[f][p] # "idle" =>
             p \in Boundaries(Cut(f)) /\ p < window[f].next_dispatch
    <3>1. part[f][o] # "idle"
      BY <1>1
    <3> QED
      BY <1>1, <1>3, <1>5, <3>1, Zenon DEF FileInv, WindowInv
  <2>6. WindowInv(f)'
    <3>1. /\ window'[f].next_dispatch = window[f].next_dispatch
          /\ window'[f].in_flight = Cardinality(LiveParts(f)')
          /\ window'[f].watermark \in Boundaries(Cut(f)) /\ reported'[f] = window'[f].watermark
          /\ \A p \in window'[f].completed : p \in Offsets(f) /\ PartBlock(f, p) \subseteq stored[f]
      BY <1>4, <1>6, <1>8, Zenon
    <3>2. Cardinality(LiveParts(f)') <= MaxParts[f]
      BY <1>1, <1>3, OneLess, Zenon
    <3> QED
      BY <1>1, <2>1, <2>5, <3>1, <3>2, Zenon DEF WindowInv
  <2> QED
    BY <2>2, <2>3, <2>4, <2>6, Zenon DEF FileInv
<1> QED
  BY <1>3, <1>11, <1>12, <1>13, FileStep, Zenon

-----------------------------------------------------------------------------
(* The steps of the parts                                                  *)

\* What the steps of a part have in common: it stays in the JoinSet, a part
\* that is done is stored, one that is cancelled saw the token, and only the
\* failure of an upload's part spoils its session.
PartMoves(f, o, state) ==
  /\ part[f][o] \in Unfinished /\ SetPart(f, o, state) /\ UNCHANGED partStep
  /\ stored' \in [File -> SUBSET Nat] /\ abort_required' \in [File -> BOOLEAN]
  /\ \A h \in File \ {f} : stored'[h] = stored[h] /\ abort_required'[h] = abort_required[h]
  /\ stored[f] \subseteq stored'[f] /\ stored'[f] \subseteq Offsets(f)
  /\ state = "done" => PartBlock(f, o) \subseteq stored'[f]
  /\ state = "cancelled" => Token(f)
  /\ abort_required'[f] => abort_required[f] \/ (DirOf[f] = "Upload" /\ state = "failed")

\* A part that runs keeps its driver inside the window.
LEMMA PartRuns ==
  ASSUME NEW f \in File, NEW o \in Offsets(f), IInv, part[f][o] \in Unfinished
  PROVE  /\ driver[f] \in Running /\ driver[f] \notin {"prepare", "begin", "claimed", "exit"}
         /\ ~acked[f] /\ ~aborted[f] /\ outbox[f] = "none"
<1>1. o \in LiveParts(f)
  BY Zenon DEF LiveParts
<1>2. PhaseInv(f) /\ EndInv(f)
  BY Zenon DEF IInv, FileInv
<1>3. driver[f] \in Running
  BY <1>1, <1>2, Zenon DEF PhaseInv
<1>4. driver[f] \notin {"prepare", "begin", "claimed", "exit"}
  BY <1>3 DEF Running
<1> QED
  BY <1>2, <1>3, <1>4, Zenon DEF EndInv

\* A step of a part preserves the invariant if it keeps the queue live.
LEMMA PartMoved ==
  ASSUME NEW f \in File, NEW o \in Offsets(f), NEW state \in Unfinished \cup Finished,
         IInv, PartMoves(f, o, state), waiters' \in Seq(Places), QueueIsLive'
  PROVE  IInv'
<1>1. /\ part[f][o] \in Unfinished /\ part' = [part EXCEPT ![f][o] = state]
      /\ UNCHANGED <<driver, start, window, failed, cancelled, terminal, interrupted, outbox,
                     reported, acked, aborted>>
      /\ stored' \in [File -> SUBSET Nat] /\ abort_required' \in [File -> BOOLEAN]
      /\ \A h \in File \ {f} : stored'[h] = stored[h] /\ abort_required'[h] = abort_required[h]
      /\ stored[f] \subseteq stored'[f] /\ stored'[f] \subseteq Offsets(f)
      /\ state = "done" => PartBlock(f, o) \subseteq stored'[f]
      /\ state = "cancelled" => Token(f)
      /\ abort_required'[f] => abort_required[f] \/ (DirOf[f] = "Upload" /\ state = "failed")
  BY Zenon DEF PartMoves, SetPart, partStep
<1>2. state \in PartStates /\ part[f][o] \notin {"idle", "failed"}
  BY <1>1 DEF PartStates, Unfinished, Finished
<1>3. /\ part' \in [File -> UNION {[Offsets(h) -> PartStates] : h \in File}]
      /\ \A h \in File : part'[h] \in [Offsets(h) -> PartStates]
      /\ part'[f][o] = state
      /\ \A p \in Offsets(f) \ {o} : part'[f][p] = part[f][p]
      /\ \A h \in File \ {f} : part'[h] = part[h]
  BY <1>1, <1>2, PartChanges, Zenon DEF IInv
<1>4. LiveParts(f)' = LiveParts(f)
  <2>1. \A p \in Offsets(f) :
          part'[f][p] \in Unfinished \cup Finished <=> part[f][p] \in Unfinished \cup Finished
    BY <1>1, <1>3, Zenon
  <2> QED
    BY <2>1, Zenon DEF LiveParts
<1>5. /\ driver[f] \in Running /\ driver[f] \notin {"prepare", "begin", "claimed", "exit"}
      /\ ~acked[f] /\ ~aborted[f] /\ outbox[f] = "none"
  BY <1>1, PartRuns, Zenon
<1>6. TypeOK'
  BY <1>1, <1>3, Zenon DEF IInv, TypeOK
<1>7. \A h \in File \ {f} : Same(h)
  BY <1>1, <1>3, Zenon DEF Same
<1>8. FileInv(f)'
  <2>1. Cut(f)' = Cut(f) /\ \A p \in Offsets(f) : PartBlock(f, p)' = PartBlock(f, p)
    BY <1>1, Zenon DEF PartBlock, Cut
  <2>2. PhaseInv(f) /\ StoreInv(f) /\ WindowInv(f) /\ EndInv(f)
    BY Zenon DEF IInv, FileInv
  <2>3. PhaseInv(f)'
    BY <1>1, <1>5, <2>2, Zenon DEF PhaseInv
  <2>4. StoreInv(f)'
    <3>1. \A p \in Offsets(f) : part'[f][p] = "done" => PartBlock(f, p)' \subseteq stored'[f]
      <4>1. \A p \in Offsets(f) \ {o} : part'[f][p] = "done" => PartBlock(f, p) \subseteq stored[f]
        BY <1>3, <2>2, Zenon DEF StoreInv
      <4>2. \A p \in Offsets(f) : part'[f][p] = "done" => PartBlock(f, p) \subseteq stored'[f]
        <5> SUFFICES ASSUME NEW p \in Offsets(f), part'[f][p] = "done"
                     PROVE  PartBlock(f, p) \subseteq stored'[f]
          BY Zenon
        <5>1. CASE p = o
          BY <1>1, <1>3, <5>1, Zenon
        <5>2. CASE p # o
          <6>1. PartBlock(f, p) \subseteq stored[f]
            BY <4>1, <5>2, Zenon
          <6> QED
            BY <1>1, <6>1, Zenon
        <5> QED
          BY <5>1, <5>2, Zenon
      <4> QED
        BY <2>1, <4>2, Zenon
    <3>2. 0 .. reported'[f] - 1 \subseteq stored'[f]
      BY <1>1, <2>2, Zenon DEF StoreInv
    <3>3. ~(driver'[f] = "claimed" \/ acked'[f] \/ outbox'[f] = "Completed")
      BY <1>1, <1>5
    <3> QED
      BY <1>1, <3>1, <3>2, <3>3, Zenon DEF StoreInv
  <2>5. WindowInv(f)'
    <3> SUFFICES ASSUME driver[f] \in {"fill", "join"} PROVE WindowInv(f)'
      BY <1>1, Zenon DEF WindowInv
    <3>1. /\ window[f].next_dispatch \in Boundaries(Cut(f))
          /\ window[f].watermark \in Boundaries(Cut(f)) /\ reported[f] = window[f].watermark
          /\ window[f].in_flight = Cardinality(LiveParts(f))
      BY <2>2, Zenon DEF WindowInv
    <3>2. \A p \in window[f].completed : p \in Offsets(f) /\ PartBlock(f, p) \subseteq stored'[f]
      BY <1>1, <2>2, Zenon DEF WindowInv
    <3>3. \A p \in Offsets(f) : part'[f][p] # "idle" =>
            p \in Boundaries(Cut(f)) /\ p < window[f].next_dispatch
      BY <1>2, <1>3, <2>2, Zenon DEF WindowInv
    <3>4. window[f].in_flight <= MaxParts[f]
      BY <2>2, Zenon DEF WindowInv
    <3> QED
      BY <1>1, <1>4, <2>1, <3>1, <3>2, <3>3, <3>4, Zenon DEF WindowInv
  <2>6. EndInv(f)'
    <3>1. \A p \in Offsets(f) : part[f][p] = "failed" => part'[f][p] = "failed"
      BY <1>2, <1>3, Zenon
    <3>2. \A p \in Offsets(f) : part'[f][p] = "cancelled" => part[f][p] = "cancelled" \/ Token(f)
      BY <1>1, <1>3, Zenon
    <3>3. abort_required'[f] => DirOf[f] = "Upload"
      BY <1>1, <2>2, Zenon DEF EndInv
    <3>4. abort_required'[f] /\ driver[f] \notin {"drain", "exit"} =>
            failed[f] \/ \E p \in Offsets(f) : part'[f][p] = "failed"
      BY <1>1, <1>3, <2>2, <3>1, Zenon DEF EndInv
    <3>5. (cancelled[f] \/ \E p \in Offsets(f) : part'[f][p] = "cancelled")
            /\ driver[f] \notin {"drain", "exit"} => interrupted[f]
      BY <2>2, <3>2, Zenon DEF EndInv, Token
    <3> QED
      BY <1>1, <1>5, <2>2, <3>3, <3>4, <3>5, Zenon DEF EndInv
  <2> QED
    BY <2>3, <2>4, <2>5, <2>6, Zenon DEF FileInv
<1> QED
  BY <1>6, <1>7, <1>8, FileStep, Zenon

\* The other parts of the queue go on waiting when one part moves.
LEMMA OthersWait ==
  ASSUME NEW f \in File, NEW o \in Offsets(f), NEW p \in Places, p # <<f, o>>,
         part[p[1]][p[2]] = "waiting",
         \A x \in Offsets(f) \ {o} : part'[f][x] = part[f][x],
         \A h \in File \ {f} : part'[h] = part[h]
  PROVE  part'[p[1]][p[2]] = "waiting"
<1>1. p = <<p[1], p[2]>> /\ p[1] \in File /\ p[2] \in Offsets(p[1])
  BY DEF Places
<1>2. CASE p[1] = f
  <2>1. p[2] # o
    BY <1>1, <1>2, Zenon
  <2> QED
    BY <1>1, <1>2, <2>1, Zenon
<1>3. CASE p[1] # f
  BY <1>1, <1>3, Zenon
<1> QED
  BY <1>2, <1>3, Zenon

\* What waits is a part, and waits once.
LEMMA QueueFacts ==
  ASSUME IInv
  PROVE  /\ waiters \in Seq(Places) /\ DOMAIN waiters = 1 .. Len(waiters) /\ Len(waiters) \in Nat
         /\ \A i \in DOMAIN waiters : /\ waiters[i] \in Places
                                      /\ part[waiters[i][1]][waiters[i][2]] = "waiting"
         /\ \A i, j \in DOMAIN waiters : waiters[i] = waiters[j] => i = j
<1>1. waiters \in Seq(Places)
  BY Zenon DEF IInv, TypeOK
<1>2. DOMAIN waiters = 1 .. Len(waiters) /\ Len(waiters) \in Nat
      /\ \A i \in DOMAIN waiters : waiters[i] \in Places
  BY <1>1
<1> QED
  BY <1>1, <1>2, Zenon DEF IInv, QueueIsLive

\* acquire: a part that did not wait joins the queue.
LEMMA QueueJoined ==
  ASSUME NEW f \in File, NEW o \in Offsets(f), Constants, IInv, part[f][o] = "spawned",
         part'[f][o] = "waiting",
         \A x \in Offsets(f) \ {o} : part'[f][x] = part[f][x],
         \A h \in File \ {f} : part'[h] = part[h],
         waiters' = Append(waiters, <<f, o>>)
  PROVE  waiters' \in Seq(Places) /\ QueueIsLive'
<1> DEFINE N == Len(waiters)
           p == <<f, o>>
<1>1. p \in Places /\ p[1] = f /\ p[2] = o
  <2>1. o \in Nat
    BY DEF Constants, Offsets
  <2> QED
    BY <2>1 DEF Places
<1>2. /\ waiters \in Seq(Places) /\ DOMAIN waiters = 1 .. N /\ N \in Nat
      /\ \A i \in 1 .. N : waiters[i] \in Places /\ part[waiters[i][1]][waiters[i][2]] = "waiting"
      /\ \A i, j \in 1 .. N : waiters[i] = waiters[j] => i = j
  BY QueueFacts, Zenon
<1> HIDE DEF p
<1>3. waiters' = Append(waiters, p)
  BY Zenon DEF p
<1> HIDE DEF N
<1>4. /\ waiters' \in Seq(Places) /\ DOMAIN waiters' = 1 .. N + 1 /\ waiters'[N + 1] = p
      /\ \A i \in 1 .. N : waiters'[i] = waiters[i]
  BY <1>1, <1>2, <1>3 DEF N
<1>5. \A i \in 1 .. N + 1 : i \in 1 .. N \/ i = N + 1
  BY <1>2
<1>6. \A i \in 1 .. N : waiters[i] # p
  <2>1. part[p[1]][p[2]] # "waiting"
    BY <1>1
  <2> QED
    BY <1>2, <2>1, Zenon
<1>7. \A i \in 1 .. N : part'[waiters[i][1]][waiters[i][2]] = "waiting"
  <2> SUFFICES ASSUME NEW i \in 1 .. N PROVE part'[waiters[i][1]][waiters[i][2]] = "waiting"
    BY Zenon
  <2>1. PICK x \in Places : x = waiters[i] /\ x # <<f, o>> /\ part[x[1]][x[2]] = "waiting"
    BY <1>2, <1>6, Zenon DEF p
  <2>2. part'[x[1]][x[2]] = "waiting"
    BY <2>1, OthersWait, Zenon
  <2> QED
    BY <2>1, <2>2, Zenon
<1>8. \A i \in 1 .. N + 1 : part'[waiters'[i][1]][waiters'[i][2]] = "waiting"
  <2> SUFFICES ASSUME NEW i \in 1 .. N + 1
               PROVE  part'[waiters'[i][1]][waiters'[i][2]] = "waiting"
    BY Zenon
  <2>1. CASE i \in 1 .. N
    BY <1>4, <1>7, <2>1, Zenon
  <2>2. CASE i = N + 1
    <3>1. waiters'[i] = p
      BY <1>4, <2>2, Zenon
    <3>2. part'[p[1]][p[2]] = "waiting"
      BY <1>1, Zenon
    <3> QED
      BY <3>1, <3>2, Zenon
  <2> QED
    BY <1>5, <2>1, <2>2, Zenon
<1>9. ASSUME NEW i \in 1 .. N + 1, NEW j \in 1 .. N + 1, waiters'[i] = waiters'[j] PROVE i = j
  <2>1. CASE i \in 1 .. N /\ j \in 1 .. N
    <3>1. waiters[i] = waiters[j]
      BY <1>4, <1>9, <2>1, Zenon
    <3> QED
      BY <1>2, <2>1, <3>1, Zenon
  <2>2. CASE i = N + 1 /\ j \in 1 .. N
    BY <1>4, <1>6, <1>9, <2>2, Zenon
  <2>3. CASE i \in 1 .. N /\ j = N + 1
    BY <1>4, <1>6, <1>9, <2>3, Zenon
  <2> QED
    BY <1>5, <2>1, <2>2, <2>3, Zenon
<1> QED
  BY <1>4, <1>8, <1>9, ZenonT(60) DEF QueueIsLive

\* The semaphore serves its head: the rest goes on waiting.
LEMMA QueueServed ==
  ASSUME NEW f \in File, NEW o \in Offsets(f), IInv, waiters # <<>>, Head(waiters) = <<f, o>>,
         \A x \in Offsets(f) \ {o} : part'[f][x] = part[f][x],
         \A h \in File \ {f} : part'[h] = part[h],
         waiters' = Tail(waiters)
  PROVE  waiters' \in Seq(Places) /\ QueueIsLive'
<1> DEFINE N == Len(waiters)
<1>1. /\ waiters \in Seq(Places) /\ DOMAIN waiters = 1 .. N /\ N \in Nat
      /\ \A i \in 1 .. N : waiters[i] \in Places /\ part[waiters[i][1]][waiters[i][2]] = "waiting"
      /\ \A i, j \in 1 .. N : waiters[i] = waiters[j] => i = j
  BY QueueFacts, Zenon
<1>2. N # 0 /\ waiters[1] = <<f, o>>
  BY <1>1
<1>3. /\ waiters' \in Seq(Places) /\ DOMAIN waiters' = 1 .. N - 1
      /\ \A i \in 1 .. N - 1 : waiters'[i] = waiters[i + 1]
  BY <1>1, <1>2
<1> HIDE DEF N
<1>4. 1 \in 1 .. N /\ \A i \in 1 .. N - 1 : i + 1 \in 1 .. N /\ i + 1 # 1
  BY <1>1, <1>2
<1>5. ASSUME NEW i \in 1 .. N - 1 PROVE part'[waiters'[i][1]][waiters'[i][2]] = "waiting"
  <2> DEFINE k == i + 1
  <2>0. k \in 1 .. N /\ k # 1 /\ waiters'[i] = waiters[k]
    BY <1>3, <1>4, Zenon
  <2> HIDE DEF k
  <2>1. PICK x \in Places : x = waiters'[i] /\ x # <<f, o>> /\ part[x[1]][x[2]] = "waiting"
    BY <1>1, <1>2, <1>4, <2>0, ZenonT(60)
  <2>2. part'[x[1]][x[2]] = "waiting"
    BY <2>1, OthersWait, Zenon
  <2> QED
    BY <2>1, <2>2, Zenon
<1>6. ASSUME NEW i \in 1 .. N - 1, NEW j \in 1 .. N - 1, waiters'[i] = waiters'[j] PROVE i = j
  <2>1. waiters[i + 1] = waiters[j + 1] /\ i + 1 \in 1 .. N /\ j + 1 \in 1 .. N
    BY <1>3, <1>4, <1>6, Zenon
  <2>2. i + 1 = j + 1
    BY <1>1, <2>1, Zenon
  <2> QED
    BY <1>1, <2>2
<1> QED
  BY <1>3, <1>5, <1>6, Zenon DEF QueueIsLive

\* A cancelled acquire leaves the queue, and nobody else does.
LEMMA QueueLeft ==
  ASSUME NEW f \in File, NEW o \in Offsets(f), IInv, LeaveQueue(f, o),
         \A x \in Offsets(f) \ {o} : part'[f][x] = part[f][x],
         \A h \in File \ {f} : part'[h] = part[h]
  PROVE  waiters' \in Seq(Places) /\ QueueIsLive'
<1> DEFINE N == Len(waiters)
<1>1. /\ waiters \in Seq(Places) /\ N \in Nat /\ DOMAIN waiters = 1 .. N
      /\ \A i \in DOMAIN waiters : waiters[i] \in Places /\ part[waiters[i][1]][waiters[i][2]] = "waiting"
      /\ \A i, j \in DOMAIN waiters : waiters[i] = waiters[j] => i = j
  <2>1. /\ waiters \in Seq(Places)
        /\ \A i \in DOMAIN waiters : waiters[i] \in Places /\ part[waiters[i][1]][waiters[i][2]] = "waiting"
        /\ \A i, j \in DOMAIN waiters : waiters[i] = waiters[j] => i = j
    BY QueueFacts, Zenon
  <2>2. N \in Nat /\ DOMAIN waiters = 1 .. N
    BY <2>1
  <2> QED
    BY <2>1, <2>2, Zenon
<1>2. PICK l \in 1 .. N :
        /\ waiters[l] = <<f, o>>
        /\ waiters' = [k \in 1 .. N - 1 |-> IF k < l THEN waiters[k] ELSE waiters[k + 1]]
  BY <1>1, Zenon DEF LeaveQueue
<1> DEFINE at(k) == IF k < l THEN k ELSE k + 1
<1>3. /\ \A k \in 1 .. N - 1 : at(k) \in 1 .. N /\ at(k) # l
      /\ \A k, m \in 1 .. N - 1 : at(k) = at(m) => k = m
      /\ N - 1 \in Nat
  <2> HIDE DEF N
  <2> QED
    BY <1>1, <1>2
<1>4. /\ DOMAIN waiters' = 1 .. N - 1
      /\ \A k \in 1 .. N - 1 : waiters'[k] = waiters[at(k)]
      /\ waiters' = [k \in 1 .. N - 1 |-> waiters'[k]]
  <2> HIDE DEF N
  <2> QED
    BY <1>2
<1> HIDE DEF at, N
<1>5. ASSUME NEW k \in 1 .. N - 1
      PROVE  waiters'[k] \in Places /\ part'[waiters'[k][1]][waiters'[k][2]] = "waiting"
  <2>0. PICK j \in DOMAIN waiters : j # l /\ waiters'[k] = waiters[j]
    BY <1>1, <1>3, <1>4, Zenon
  <2>1. PICK x \in Places : x = waiters'[k] /\ x # <<f, o>> /\ part[x[1]][x[2]] = "waiting"
    <3>1. waiters[j] # waiters[l]
      BY <1>1, <1>2, <2>0, Zenon
    <3> QED
      BY <1>1, <1>2, <2>0, <3>1, Zenon
  <2>2. part'[x[1]][x[2]] = "waiting"
    BY <2>1, OthersWait, Zenon
  <2> QED
    BY <2>1, <2>2, Zenon
<1>6. waiters' \in Seq(Places)
  <2>1. waiters' \in [1 .. N - 1 -> Places]
    BY <1>4, <1>5, Zenon
  <2> QED
    BY <1>3, <2>1
<1>7. ASSUME NEW k \in 1 .. N - 1, NEW m \in 1 .. N - 1, waiters'[k] = waiters'[m] PROVE k = m
  <2>1. waiters[at(k)] = waiters[at(m)] /\ at(k) \in DOMAIN waiters /\ at(m) \in DOMAIN waiters
    BY <1>1, <1>3, <1>4, <1>7, Zenon
  <2>2. at(k) = at(m)
    BY <1>1, <2>1, Zenon
  <2> QED
    BY <1>3, <2>2, Zenon
<1> QED
  BY <1>4, <1>5, <1>6, <1>7, Zenon DEF QueueIsLive

\* A part that touches neither the bytes nor the session of its file.
LEMMA PlainMove ==
  ASSUME NEW f \in File, NEW o \in Offsets(f), NEW state \in Unfinished \cup Finished, IInv,
         part[f][o] \in Unfinished, SetPart(f, o, state), state # "done",
         state = "cancelled" => Token(f), UNCHANGED <<partStep, stored, abort_required>>
  PROVE  PartMoves(f, o, state)
<1>1. stored[f] \subseteq Offsets(f)
  BY Zenon DEF IInv, FileInv, StoreInv
<1> QED
  BY <1>1, Zenon DEF PartMoves, IInv, TypeOK

\* SetPart changes one part.
LEMMA PartSet ==
  ASSUME NEW f \in File, NEW o \in Offsets(f), NEW state \in Unfinished \cup Finished, IInv,
         SetPart(f, o, state)
  PROVE  /\ part'[f][o] = state
         /\ \A x \in Offsets(f) \ {o} : part'[f][x] = part[f][x]
         /\ \A h \in File \ {f} : part'[h] = part[h]
<1>1. state \in PartStates
  BY Zenon DEF PartStates
<1> QED
  BY <1>1, PartChanges, ZenonT(60) DEF IInv, SetPart

\* A part that does not wait ends, is refused, or fails: the queue is not involved.
LEMMA PartEnds ==
  ASSUME NEW f \in File, NEW o \in Offsets(f), NEW state \in Finished, IInv,
         part[f][o] # "waiting", PartMoves(f, o, state), UNCHANGED waiters
  PROVE  IInv'
<1>1. state \in Unfinished \cup Finished /\ SetPart(f, o, state)
  BY Zenon DEF PartMoves
<1>2. QueueIsLive'
  BY <1>1, PartSet, QueueSpared, Zenon
<1>3. waiters' \in Seq(Places)
  BY Zenon DEF IInv, TypeOK
<1> QED
  BY <1>1, <1>2, <1>3, PartMoved, Zenon

\* acquire: refused, or queued.
LEMMA Acquires ==
  ASSUME NEW f \in File, NEW o \in Offsets(f), Constants, IInv, Acquire(f, o)
  PROVE  IInv'
<1>1. part[f][o] = "spawned" /\ UNCHANGED <<partStep, stored, abort_required>>
  BY Zenon DEF Acquire
<1>2. part[f][o] \in Unfinished /\ part[f][o] # "waiting" /\ "waiting" \in Unfinished
      /\ "failed" \in Finished /\ "cancelled" \in Finished
  BY <1>1 DEF Unfinished, Finished
<1>3. CASE SetPart(f, o, "failed") /\ UNCHANGED waiters
  <2>1. PartMoves(f, o, "failed")
    BY <1>1, <1>2, <1>3, PlainMove, Zenon
  <2> QED
    BY <1>2, <1>3, <2>1, PartEnds, Zenon
<1>4. CASE Token(f) /\ SetPart(f, o, "cancelled") /\ UNCHANGED waiters
  <2>1. PartMoves(f, o, "cancelled")
    BY <1>1, <1>2, <1>4, PlainMove, Zenon
  <2> QED
    BY <1>2, <1>4, <2>1, PartEnds, Zenon
<1>5. CASE SetPart(f, o, "waiting") /\ waiters' = Append(waiters, <<f, o>>)
  <2>1. PartMoves(f, o, "waiting")
    BY <1>1, <1>2, <1>5, PlainMove, Zenon
  <2>2. /\ part'[f][o] = "waiting"
        /\ \A x \in Offsets(f) \ {o} : part'[f][x] = part[f][x]
        /\ \A h \in File \ {f} : part'[h] = part[h]
    BY <1>2, <1>5, PartSet, Zenon
  <2>3. waiters' \in Seq(Places) /\ QueueIsLive'
    BY <1>1, <1>5, <2>2, QueueJoined, Zenon
  <2> QED
    BY <1>2, <2>1, <2>3, PartMoved, Zenon
<1> QED
  BY <1>3, <1>4, <1>5 DEF Acquire

\* The semaphore serves its first waiter.
LEMMA Grants ==
  ASSUME IInv, Grant
  PROVE  IInv'
<1> DEFINE f == Head(waiters)[1]
           o == Head(waiters)[2]
<1>1. /\ waiters # <<>> /\ SetPart(f, o, "sending") /\ waiters' = Tail(waiters)
      /\ UNCHANGED <<partStep, stored, abort_required>>
  BY Zenon DEF Grant
<1>2. 1 \in DOMAIN waiters /\ Head(waiters) = waiters[1]
  BY <1>1, QueueFacts
<1>3. Head(waiters) \in Places /\ part[f][o] = "waiting"
  BY <1>2, QueueFacts, Zenon
<1>4. f \in File /\ o \in Offsets(f) /\ Head(waiters) = <<f, o>>
  BY <1>3 DEF Places
<1>5. part[f][o] \in Unfinished /\ "sending" \in Unfinished \cup Finished
  BY <1>3 DEF Unfinished
<1> HIDE DEF f, o
<1>6. PICK g \in File : g = f
  BY <1>4, Zenon
<1>7. PICK p \in Offsets(g) : p = o
  BY <1>4, <1>6, Zenon
<1>8. PartMoves(g, p, "sending")
  BY <1>1, <1>5, <1>6, <1>7, PlainMove, Zenon
<1>9. /\ \A x \in Offsets(g) \ {p} : part'[g][x] = part[g][x]
      /\ \A h \in File \ {g} : part'[h] = part[h]
  BY <1>1, <1>5, <1>6, <1>7, PartSet, Zenon
<1>10. waiters' \in Seq(Places) /\ QueueIsLive'
  BY <1>1, <1>4, <1>6, <1>7, <1>9, QueueServed, Zenon
<1> QED
  BY <1>5, <1>8, <1>10, PartMoved, Zenon

\* A cancelled acquire.
LEMMA StopsWaiting ==
  ASSUME NEW f \in File, NEW o \in Offsets(f), IInv, StopWaiting(f, o)
  PROVE  IInv'
<1>1. /\ part[f][o] = "waiting" /\ Token(f) /\ SetPart(f, o, "cancelled") /\ LeaveQueue(f, o)
      /\ UNCHANGED <<partStep, stored, abort_required>>
  BY Zenon DEF StopWaiting
<1>2. part[f][o] \in Unfinished /\ "cancelled" \in Unfinished \cup Finished
  BY <1>1 DEF Unfinished, Finished
<1>3. PartMoves(f, o, "cancelled")
  BY <1>1, <1>2, PlainMove, Zenon
<1>4. /\ \A x \in Offsets(f) \ {o} : part'[f][x] = part[f][x]
      /\ \A h \in File \ {f} : part'[h] = part[h]
  BY <1>1, <1>2, PartSet, Zenon
<1>5. waiters' \in Seq(Places) /\ QueueIsLive'
  BY <1>1, <1>4, QueueLeft, Zenon
<1> QED
  BY <1>2, <1>3, <1>5, PartMoved, Zenon

\* The request of a part ends, in one of its four ways.
LEMMA RequestEnds ==
  ASSUME NEW f \in File, NEW o \in Offsets(f), Constants, IInv,
         PartDone(f, o) \/ PartStops(f, o) \/ PartFails(f, o)
  PROVE  IInv'
<1>1. part[f][o] = "sending" /\ UNCHANGED <<partStep, waiters>>
  BY Zenon DEF PartDone, PartStops, PartFails
<1>2. part[f][o] \in Unfinished /\ part[f][o] # "waiting"
      /\ \A x \in {"done", "failed", "cancelled", "panicked"} : x \in Finished
  BY <1>1 DEF Unfinished, Finished
<1>3. stored \in [File -> SUBSET Nat] /\ abort_required \in [File -> BOOLEAN]
      /\ stored[f] \subseteq Offsets(f)
  BY Zenon DEF IInv, TypeOK, FileInv, StoreInv
<1>4. CASE PartDone(f, o)
  <2>1. SetPart(f, o, "done") /\ UNCHANGED abort_required
        /\ stored' = [stored EXCEPT ![f] = @ \cup PartBlock(f, o)]
    BY <1>4, Zenon DEF PartDone, PartBlock
  <2>2. PartBlock(f, o) \subseteq Offsets(f) /\ Offsets(f) \subseteq Nat
    BY DEF Constants, PartBlock, Offsets, PartEnd, Least, Cut
  <2>3. /\ stored'[f] = stored[f] \cup PartBlock(f, o)
        /\ \A h \in File \ {f} : stored'[h] = stored[h]
    BY <1>3, <2>1, Zenon
  <2>4. stored' \in [File -> SUBSET Nat]
    <3>1. stored[f] \cup PartBlock(f, o) \in SUBSET Nat
      BY <1>3, <2>2, Zenon
    <3> QED
      BY <1>3, <2>1, <3>1, Zenon
  <2>5. PartMoves(f, o, "done")
    BY <1>1, <1>2, <1>3, <2>1, <2>2, <2>3, <2>4, Zenon DEF PartMoves
  <2> QED
    BY <1>1, <1>2, <2>5, PartEnds, Zenon
<1>5. CASE PartStops(f, o)
  <2>1. SetPart(f, o, "cancelled") /\ Token(f) /\ UNCHANGED <<stored, abort_required>>
    BY <1>5, Zenon DEF PartStops
  <2>2. PartMoves(f, o, "cancelled")
    BY <1>1, <1>2, <1>3, <2>1, Zenon DEF PartMoves
  <2> QED
    BY <1>1, <1>2, <2>2, PartEnds, Zenon
<1>6. CASE PartFails(f, o)
  <2>1. CASE SetPart(f, o, "panicked") /\ UNCHANGED abort_required
    <3>1. UNCHANGED stored
      BY <1>6, Zenon DEF PartFails
    <3>2. PartMoves(f, o, "panicked")
      BY <1>1, <1>2, <1>3, <2>1, <3>1, Zenon DEF PartMoves
    <3> QED
      BY <1>1, <1>2, <3>2, PartEnds, Zenon
  <2>2. CASE /\ SetPart(f, o, "failed")
             /\ \E spoilt \in BOOLEAN :
                  abort_required' = [abort_required EXCEPT
                                       ![f] = @ \/ (spoilt /\ DirOf[f] = "Upload")]
    <3>1. UNCHANGED stored
      BY <1>6, Zenon DEF PartFails
    <3>2. PICK spoilt \in BOOLEAN :
            abort_required' = [abort_required EXCEPT ![f] = @ \/ (spoilt /\ DirOf[f] = "Upload")]
      BY <2>2, Zenon
    <3>3. /\ abort_required' \in [File -> BOOLEAN]
          /\ abort_required'[f] => abort_required[f] \/ DirOf[f] = "Upload"
          /\ \A h \in File \ {f} : abort_required'[h] = abort_required[h]
      BY <1>3, <3>2, Zenon
    <3>4. PartMoves(f, o, "failed")
      BY <1>1, <1>2, <1>3, <2>2, <3>1, <3>3, Zenon DEF PartMoves
    <3> QED
      BY <1>1, <1>2, <3>4, PartEnds, Zenon
  <2> QED
    BY <1>6, <2>1, <2>2, Zenon DEF PartFails
<1> QED
  BY <1>4, <1>5, <1>6, Zenon

-----------------------------------------------------------------------------
(* The invariant                                                           *)

\* Nothing has been prepared yet.
LEMMA InitInv ==
  ASSUME Constants, Init
  PROVE  IInv
<1>1. \A f \in File : Total[f] \in Nat /\ start[f] = 0
  BY DEF Constants, Init
<1>2. ASSUME NEW f \in File PROVE NewWindow(Cut(f)) \in Windows
  <2>1. Cut(f).start = 0 /\ Cut(f).total = Total[f]
    BY <1>1 DEF Cut
  <2>2. Least(Cut(f).start, Cut(f).total) \in Nat
    BY <1>1, <2>1 DEF Least
  <2> QED
    BY <2>2 DEF NewWindow, Windows
<1>3. window \in [File -> Windows]
  BY <1>2, Zenon DEF Init
<1>4. "idle" \in PartStates /\ "idle" \notin Unfinished \cup Finished
  BY DEF PartStates, Unfinished, Finished
<1>5. \A f \in File : /\ part[f] = [o \in Offsets(f) |-> "idle"]
                      /\ \A o \in Offsets(f) : part[f][o] = "idle"
  BY Zenon DEF Init
<1>6. \A f \in File : part[f] \in [Offsets(f) -> PartStates]
  BY <1>4, <1>5, Zenon
<1>7. part \in [File -> UNION {[Offsets(f) -> PartStates] : f \in File}]
  <2>1. part = [f \in File |-> part[f]]
    BY Zenon DEF Init
  <2>2. \A f \in File : part[f] \in UNION {[Offsets(h) -> PartStates] : h \in File}
    BY <1>6, Zenon
  <2> QED
    BY <2>1, <2>2, Zenon
<1>8. waiters \in Seq(Places) /\ DOMAIN waiters = {}
  BY DEF Init
<1>9. TypeOK
  <2>1. /\ driver \in [File -> {"prepare", "begin", "fill", "join", "drain", "claimed", "exit"}]
        /\ outbox \in [File -> {"none", "Completed", "Failed", "Canceled"}]
        /\ start \in [File -> Nat] /\ reported \in [File -> Nat]
        /\ stored \in [File -> SUBSET Nat]
    BY DEF Init
  <2>2. OPEN \in GateState
    BY Zenon DEF GateState
  <2>3. /\ terminal \in [File -> GateState] /\ interrupted \in [File -> BOOLEAN]
        /\ failed \in [File -> BOOLEAN] /\ cancelled \in [File -> BOOLEAN]
        /\ acked \in [File -> BOOLEAN] /\ abort_required \in [File -> BOOLEAN]
        /\ aborted \in [File -> BOOLEAN]
    BY <2>2, Zenon DEF Init
  <2> QED
    BY <1>3, <1>6, <1>7, <1>8, <2>1, <2>3, Zenon DEF TypeOK
<1>10. QueueIsLive
  BY <1>8, Zenon DEF QueueIsLive
<1>11. ASSUME NEW f \in File PROVE FileInv(f)
  <2>1. /\ driver[f] = "prepare" /\ start[f] = 0 /\ reported[f] = 0 /\ stored[f] = {}
        /\ ~failed[f] /\ ~cancelled[f] /\ ~acked[f] /\ ~abort_required[f] /\ ~aborted[f]
        /\ outbox[f] = "none"
    BY Zenon DEF Init
  <2>2. LiveParts(f) = {}
    BY <1>4, <1>5, Zenon DEF LiveParts
  <2>3. PhaseInv(f)
    <3>1. start[f] <= Total[f]
      BY <1>1
    <3> QED
      BY <1>5, <2>1, <2>2, <3>1, Zenon DEF PhaseInv
  <2>4. 0 .. reported[f] - 1 = {}
    BY <2>1
  <2>5. StoreInv(f)
    BY <1>5, <2>1, <2>4, Zenon DEF StoreInv
  <2>6. driver[f] \notin {"fill", "join"}
    BY <2>1
  <2>7. \A o \in Offsets(f) : part[f][o] # "failed" /\ part[f][o] # "cancelled"
    BY <1>5, ZenonT(60)
  <2>8. WindowInv(f) /\ EndInv(f)
    BY <2>1, <2>6, <2>7, Zenon DEF WindowInv, EndInv
  <2> QED
    BY <2>3, <2>5, <2>8, Zenon DEF FileInv
<1> QED
  BY <1>9, <1>10, <1>11, Zenon DEF IInv

\* The turns of the dispatch loop.
LEMMA DispatchPreserves ==
  ASSUME NEW f \in File, Constants, IInv, Dispatch(f)
  PROVE  IInv'
<1>1. driver[f] = "fill" /\ UNCHANGED <<start, failed, cancelled, terminal, interrupted, waiters,
                                        outbox, reported, stored, acked, abort_required, aborted>>
  BY Zenon DEF Dispatch
<1>2. CASE CanDispatch(Cut(f), window[f])
  <2>1. /\ part' = [part EXCEPT ![f][window[f].next_dispatch] = "spawned"]
        /\ window' = [window EXCEPT ![f] = TakeDispatch(Cut(f), @)] /\ UNCHANGED driver
    BY <1>2, Zenon DEF Dispatch
  <2>2. UNCHANGED <<driver, start, failed, cancelled, terminal, interrupted, waiters, outbox,
                    reported, stored, acked, abort_required, aborted>>
    BY <1>1, <2>1, Zenon
  <2> QED
    BY <1>1, <1>2, <2>1, <2>2, Dispatches, Zenon
<1>3. CASE ~CanDispatch(Cut(f), window[f])
  <2>1. driver' = [driver EXCEPT ![f] = "join"] /\ UNCHANGED <<part, window>>
    BY <1>3, Zenon DEF Dispatch
  <2>2. UNCHANGED <<start, window, part, failed, cancelled, terminal, interrupted, waiters,
                    outbox, reported, stored, acked, abort_required, aborted>>
    BY <1>1, <2>1, Zenon
  <2> QED
    BY <1>1, <2>1, <2>2, FillEnds, Zenon
<1> QED
  BY <1>2, <1>3, Zenon

\* One step of the driver.
LEMMA DriverPreserves ==
  ASSUME NEW f \in File, Constants, IInv, DriverStep(f)
  PROVE  IInv'
<1>1. CASE Prepared(f)
  BY <1>1, Prepares, Zenon
<1>2. CASE NotPrepared(f) \/ RejectWindow(f)
  BY <1>2, GivesUp, Zenon
<1>3. CASE ResumeAtTotal(f)
  BY <1>3, ResumesAtTotal, Zenon
<1>4. CASE OpenWindow(f)
  BY <1>4, WindowOpens, Zenon
<1>5. CASE Dispatch(f)
  BY <1>5, DispatchPreserves, Zenon
<1>6. ASSUME NEW o \in Offsets(f),
             JoinDone(f, o) \/ JoinStopped(f, o) \/ JoinPanicked(f, o) \/ Drain(f, o)
      PROVE  IInv'
  <2>1. CASE JoinDone(f, o)
    BY <2>1, JoinsDone, Zenon
  <2>2. CASE JoinStopped(f, o)
    BY <2>2, JoinsStopped, Zenon
  <2>3. CASE JoinPanicked(f, o) \/ Drain(f, o)
    BY <2>3, JoinsPanicked, Zenon
  <2> QED
    BY <1>6, <2>1, <2>2, <2>3, Zenon
<1>7. CASE FailAfterPanic(f)
  BY <1>7, PanicEnds, Zenon
<1>8. CASE Settle(f)
  BY <1>8, Settles, Zenon
<1>9. CASE Completed(f) \/ NotCompleted(f)
  BY <1>9, Completes, Zenon
<1> QED
  BY <1>1, <1>2, <1>3, <1>4, <1>5, <1>6, <1>7, <1>8, <1>9, Zenon DEF DriverStep

\* One step of a part.
LEMMA PartPreserves ==
  ASSUME NEW f \in File, NEW o \in Offsets(f), Constants, IInv, PartStep(f, o)
  PROVE  IInv'
<1>1. CASE Acquire(f, o)
  BY <1>1, Acquires, Zenon
<1>2. CASE StopWaiting(f, o)
  BY <1>2, StopsWaiting, Zenon
<1>3. CASE PartDone(f, o) \/ PartStops(f, o) \/ PartFails(f, o)
  BY <1>3, RequestEnds, Zenon
<1> QED
  BY <1>1, <1>2, <1>3, Zenon DEF PartStep

\* The invariant is inductive.
LEMMA StepPreserves ==
  ASSUME Constants, IInv, [Next]_vars
  PROVE  IInv'
<1>1. CASE Grant
  BY <1>1, Grants, Zenon
<1>2. ASSUME NEW f \in File, RequestPause(f) \/ RequestCancel(f) PROVE IInv'
  BY <1>2, StopsRequested, Zenon
<1>3. ASSUME NEW f \in File, DriverStep(f) PROVE IInv'
  BY <1>3, DriverPreserves, Zenon
<1>4. ASSUME NEW f \in File, NEW o \in Offsets(f), PartStep(f, o) PROVE IInv'
  BY <1>4, PartPreserves, Zenon
<1>5. CASE UNCHANGED vars
  <2>1. UNCHANGED <<driver, start, window, part, failed, cancelled, terminal, interrupted,
                    waiters, outbox, reported, stored, acked, abort_required, aborted>>
    BY <1>5, Zenon DEF vars
  <2>2. TypeOK' /\ QueueIsLive'
    BY <2>1, Zenon DEF IInv, TypeOK, QueueIsLive
  <2>3. \A f \in File : Same(f)
    BY <2>1, Zenon DEF Same
  <2>4. \A f \in File : FileInv(f)'
    BY <2>3, SameFile, Zenon DEF IInv
  <2> QED
    BY <2>2, <2>4, Zenon DEF IInv
<1> QED
  BY <1>1, <1>2, <1>3, <1>4, <1>5, Zenon DEF Next

-----------------------------------------------------------------------------
(* The contract with the scheduler                                         *)

\* What the scheduler sees of a file stays.
Unseen(f) ==
  /\ driver'[f] = driver[f] /\ terminal'[f] = terminal[f] /\ interrupted'[f] = interrupted[f]
  /\ outbox'[f] = outbox[f] /\ acked'[f] = acked[f] /\ aborted'[f] = aborted[f]

\* The phases of the driver, as the scheduler sees them.
LEMMA Phases ==
  ASSUME NEW f \in File, TypeOK
  PROVE  /\ driver[f] = "prepare" <=> WorkerOf(f) = "prepare"
         /\ driver[f] = "claimed" <=> WorkerOf(f) = "finishing"
         /\ driver[f] = "exit" <=> WorkerOf(f) = "exit"
         /\ driver[f] \in {"begin", "fill", "join", "drain"} <=> WorkerOf(f) = "transfer"
<1>1. driver[f] \in {"prepare", "begin", "fill", "join", "drain", "claimed", "exit"}
  BY Zenon DEF TypeOK
<1> QED
  BY <1>1 DEF WorkerOf

\* A step inside the window, or of another file, is not seen.
LEMMA UnseenStep ==
  ASSUME NEW f \in File, TypeOK,
         terminal'[f] = terminal[f], interrupted'[f] = interrupted[f], outbox'[f] = outbox[f],
         acked'[f] = acked[f], aborted'[f] = aborted[f],
         \/ driver'[f] = driver[f]
         \/ {driver[f], driver'[f]} \subseteq {"begin", "fill", "join", "drain"}
  PROVE  UNCHANGED Contract(f)!vars
<1>1. WorkerOf(f)' = WorkerOf(f)
  <2>1. CASE driver'[f] = driver[f]
    BY <2>1, Zenon DEF WorkerOf
  <2>2. CASE {driver[f], driver'[f]} \subseteq {"begin", "fill", "join", "drain"}
    <3>1. WorkerOf(f) = "transfer"
      BY <2>2, Phases, Zenon
    <3>2. WorkerOf(f)' = "transfer"
      BY <2>2 DEF WorkerOf
    <3> QED
      BY <3>1, <3>2, Zenon
  <2> QED
    BY <2>1, <2>2, Zenon
<1> QED
  BY <1>1, Zenon DEF Contract!vars

\* prepare has succeeded.
LEMMA PreparedIsSeen ==
  ASSUME NEW f \in File, IInv, Prepared(f)
  PROVE  Contract(f)!Next
<1>1. /\ driver[f] = "prepare" /\ driver'[f] = "begin"
      /\ UNCHANGED <<terminal, interrupted, outbox, acked, aborted>>
  BY Zenon DEF Prepared, IInv, TypeOK
<1>2. WorkerOf(f) = "prepare" /\ WorkerOf(f)' = "transfer"
  BY <1>1 DEF WorkerOf
<1>3. Contract(f)!Prepared
  BY <1>1, <1>2, Zenon DEF Contract!Prepared
<1> QED
  BY <1>3, Zenon DEF Contract!Next

\* The terminal event of a file.
LEMMA FinishFacts ==
  ASSUME NEW f \in File, NEW ev, TypeOK, Finish(f, ev)
  PROVE  /\ driver'[f] = "exit" /\ outbox'[f] = ev /\ WorkerOf(f)' = "exit"
         /\ \A h \in File \ {f} : driver'[h] = driver[h] /\ outbox'[h] = outbox[h]
<1>1. /\ driver'[f] = "exit" /\ outbox'[f] = ev
      /\ \A h \in File \ {f} : driver'[h] = driver[h] /\ outbox'[h] = outbox[h]
  BY Zenon DEF Finish, TypeOK
<1>2. WorkerOf(f)' = "exit"
  BY <1>1 DEF WorkerOf
<1> QED
  BY <1>1, <1>2, Zenon

\* A stop is answered by a worker whose token is cancelled, or whose gate is held
\* by a pause or a cancel.
LEMMA StopIsSeen ==
  ASSUME NEW f \in File, IInv, FinishStopped(f), driver[f] # "exit",
         interrupted[f] \/ (WorkerOf(f) = "transfer" /\ ~CanClaim(terminal[f])),
         UNCHANGED <<terminal, interrupted, acked, aborted>>
  PROVE  Contract(f)!Next
<1>1. TypeOK
  BY Zenon DEF IInv
<1>2. WorkerOf(f) # "exit"
  BY <1>1, Phases, Zenon
<1>3. Contract(f)!FinishStopped
  <2>1. CASE Finish(f, "Canceled")
    <3>1. WorkerOf(f)' = "exit" /\ outbox'[f] = "Canceled"
      BY <1>1, <2>1, FinishFacts, Zenon
    <3> QED
      BY <3>1, Zenon DEF Contract!FinishStopped, Contract!Finish
  <2>2. CASE DirOf[f] = "Download" /\ Finish(f, "Failed")
    <3>1. WorkerOf(f)' = "exit" /\ outbox'[f] = "Failed"
      BY <1>1, <2>2, FinishFacts, Zenon
    <3> QED
      BY <2>2, <3>1, Zenon DEF Contract!FinishStopped, Contract!Finish
  <2> QED
    BY <2>1, <2>2, Zenon DEF FinishStopped
<1>4. CanClaim(terminal[f]) <=> Contract(f)!CanClaim(terminal[f])
  BY Zenon DEF CanClaim, Contract!CanClaim, OPEN, Contract!OPEN
<1>5. Contract(f)!ObserveStop
  BY <1>2, <1>3, <1>4, Zenon DEF Contract!ObserveStop, Contract!Active
<1> QED
  BY <1>5, Zenon DEF Contract!Next

\* A worker may fail at any time; only an upload is aborted with it.
LEMMA FailIsSeen ==
  ASSUME NEW f \in File, IInv, Finish(f, "Failed"), driver[f] # "exit",
         UNCHANGED <<terminal, interrupted, acked>>,
         aborted'[f] \in {aborted[f], aborted[f] \/ DirOf[f] = "Upload"}
  PROVE  Contract(f)!Next
<1>1. TypeOK
  BY Zenon DEF IInv
<1>2. WorkerOf(f) # "exit"
  BY <1>1, Phases, Zenon
<1>3. WorkerOf(f)' = "exit" /\ outbox'[f] = "Failed"
  BY <1>1, FinishFacts, Zenon
<1>4. Contract(f)!Fail
  BY <1>2, <1>3, Zenon DEF Contract!Fail, Contract!Active, Contract!Finish
<1> QED
  BY <1>4, Zenon DEF Contract!Next

\* require_upload_abort and its settlement, as the scheduler sees them.
LEMMA DropIsSeen ==
  ASSUME NEW f \in File, TypeOK, DropSession(f)
  PROVE  aborted'[f] \in {aborted[f], aborted[f] \/ DirOf[f] = "Upload"}
  BY Zenon DEF DropSession, TypeOK

\* Completion is claimed from an open gate, or the stop that holds it is answered.
LEMMA ClaimIsSeen ==
  ASSUME NEW f \in File, IInv, ClaimOrStop(f), driver[f] \in {"begin", "join"},
         UNCHANGED <<interrupted, acked, aborted>>
  PROVE  Contract(f)!Next
<1>1. WorkerOf(f) = "transfer" /\ driver[f] # "exit"
  BY DEF WorkerOf
<1>2. CASE CanClaim(terminal[f])
  <2>1. /\ terminal'[f] = BeginCompletion(terminal[f]) /\ driver'[f] = "claimed"
        /\ UNCHANGED outbox
    BY <1>2, ZenonT(60) DEF ClaimOrStop, IInv, TypeOK
  <2>2. WorkerOf(f)' = "finishing"
    BY <2>1 DEF WorkerOf
  <2>3. Contract(f)!CanClaim(terminal[f])
    BY <1>2, Zenon DEF CanClaim, Contract!CanClaim, OPEN, Contract!OPEN
  <2>4. terminal'[f] = Contract(f)!BeginCompletion(terminal[f])
    BY <1>2, <2>1, <2>3, Zenon DEF BeginCompletion, Contract!BeginCompletion, COMPLETING,
                                   Contract!COMPLETING
  <2>5. Contract(f)!ClaimCompletion
    BY <1>1, <2>1, <2>2, <2>3, <2>4, Zenon DEF Contract!ClaimCompletion
  <2> QED
    BY <2>5, Zenon DEF Contract!Next
<1>3. CASE ~CanClaim(terminal[f])
  <2>1. FinishStopped(f) /\ UNCHANGED terminal
    BY <1>3, Zenon DEF ClaimOrStop
  <2>2. UNCHANGED <<terminal, interrupted, acked, aborted>>
    BY <2>1, Zenon
  <2> QED
    BY <1>1, <1>3, <2>1, <2>2, StopIsSeen, Zenon
<1> QED
  BY <1>2, <1>3, Zenon

\* The join barrier: a failure fails, a stop that a part or the driver has seen
\* was requested, and only an open gate is claimed.
LEMMA SettleIsSeen ==
  ASSUME NEW f \in File, IInv, Settle(f)
  PROVE  Contract(f)!Next
<1>1. /\ driver[f] = "join" /\ driver[f] \in {"begin", "join"}
      /\ driver[f] \notin {"drain", "exit"} /\ driver[f] # "exit"
      /\ UNCHANGED <<interrupted, acked>>
  BY DEF Settle
<1>2. EndInv(f)
  BY Zenon DEF IInv, FileInv
<1>3. CASE MustFail(f)
  <2>1. /\ Finish(f, "Failed") /\ UNCHANGED terminal
        /\ aborted' = [aborted EXCEPT ![f] = @ \/ abort_required[f]]
    BY <1>3, Zenon DEF Settle
  <2>2. aborted'[f] = (aborted[f] \/ abort_required[f])
    BY <2>1, Zenon DEF IInv, TypeOK
  <2>3. aborted \in [File -> BOOLEAN] /\ abort_required \in [File -> BOOLEAN]
    BY Zenon DEF IInv, TypeOK
  <2>4. aborted'[f] \in {aborted[f], aborted[f] \/ DirOf[f] = "Upload"}
    <3>1. CASE abort_required[f]
      BY <1>2, <2>2, <2>3, <3>1, Zenon DEF EndInv
    <3>2. CASE ~abort_required[f]
      BY <2>2, <2>3, <3>2, Zenon
    <3> QED
      BY <3>1, <3>2, Zenon
  <2>5. UNCHANGED <<terminal, interrupted, acked>>
    BY <1>1, <2>1, Zenon
  <2> QED
    BY <1>1, <2>1, <2>4, <2>5, FailIsSeen, Zenon
<1>4. CASE ~MustFail(f)
  <2>1. UNCHANGED aborted
    BY <1>4, Zenon DEF Settle
  <2>2. CASE cancelled[f] \/ Token(f)
    <3>1. FinishStopped(f) /\ UNCHANGED terminal
      BY <1>4, <2>2, Zenon DEF Settle
    <3>2. UNCHANGED <<terminal, interrupted, acked, aborted>>
      BY <1>1, <2>1, <3>1, Zenon
    <3>3. interrupted[f]
      BY <1>1, <1>2, <2>2, Zenon DEF EndInv, Token
    <3> QED
      BY <1>1, <3>1, <3>2, <3>3, StopIsSeen, Zenon
  <2>3. CASE ~(cancelled[f] \/ Token(f)) /\ ~IsComplete(Cut(f), window[f])
    <3>1. Finish(f, "Failed") /\ UNCHANGED terminal
      BY <1>4, <2>3, Zenon DEF Settle
    <3>2. UNCHANGED <<terminal, interrupted, acked>> /\ aborted'[f] = aborted[f]
      BY <1>1, <2>1, <3>1, Zenon
    <3>3. aborted'[f] \in {aborted[f], aborted[f] \/ DirOf[f] = "Upload"}
      BY <3>2, Zenon
    <3> QED
      BY <1>1, <3>1, <3>2, <3>3, FailIsSeen, Zenon
  <2>4. CASE ~(cancelled[f] \/ Token(f)) /\ IsComplete(Cut(f), window[f])
    <3>1. ClaimOrStop(f)
      BY <1>4, <2>4, Zenon DEF Settle
    <3>2. UNCHANGED <<interrupted, acked, aborted>>
      BY <1>1, <2>1, Zenon
    <3> QED
      BY <1>1, <3>1, <3>2, ClaimIsSeen, Zenon
  <2> QED
    BY <2>2, <2>3, <2>4, Zenon
<1> QED
  BY <1>3, <1>4, Zenon

\* The other ways in which a file fails.
LEMMA FailuresAreSeen ==
  ASSUME NEW f \in File, IInv,
         NotPrepared(f) \/ RejectWindow(f) \/ FailAfterPanic(f) \/ NotCompleted(f)
  PROVE  Contract(f)!Next
<1>1. driver[f] # "exit" /\ UNCHANGED <<terminal, interrupted, acked>>
  <2>1. driver[f] \in {"prepare", "begin", "drain", "claimed"}
    BY Zenon DEF NotPrepared, RejectWindow, FailAfterPanic, NotCompleted
  <2>2. driver[f] # "exit"
    BY <2>1
  <2> QED
    BY <2>2, Zenon DEF NotPrepared, RejectWindow, FailAfterPanic, NotCompleted
<1>2. TypeOK
  BY Zenon DEF IInv
<1>3. CASE Finish(f, "Failed") /\ DropSession(f)
  BY <1>1, <1>2, <1>3, DropIsSeen, FailIsSeen, Zenon
<1>4. CASE Finish(f, "Failed") /\ UNCHANGED aborted
  <2>1. aborted'[f] \in {aborted[f], aborted[f] \/ DirOf[f] = "Upload"}
    BY <1>4, Zenon
  <2> QED
    BY <1>1, <1>4, <2>1, FailIsSeen, Zenon
<1>5. CASE /\ Finish(f, "Failed")
           /\ \E changed \in BOOLEAN :
                aborted' = [aborted EXCEPT ![f] = @ \/ (changed /\ DirOf[f] = "Upload")]
  <2>1. PICK changed \in BOOLEAN :
          aborted' = [aborted EXCEPT ![f] = @ \/ (changed /\ DirOf[f] = "Upload")]
    BY <1>5, Zenon
  <2>2. aborted \in [File -> BOOLEAN]
    BY <1>2, Zenon DEF TypeOK
  <2>3. aborted'[f] = (aborted[f] \/ (changed /\ DirOf[f] = "Upload"))
    BY <2>1, <2>2, Zenon
  <2>4. aborted'[f] \in {aborted[f], aborted[f] \/ DirOf[f] = "Upload"}
    <3>1. CASE changed
      BY <2>3, <3>1, Zenon
    <3>2. CASE ~changed
      BY <2>2, <2>3, <3>2, Zenon
    <3> QED
      BY <3>1, <3>2, Zenon
  <2> QED
    BY <1>1, <1>5, <2>4, FailIsSeen, Zenon
<1>6. CASE NotPrepared(f)
  <2>1. CASE interrupted[f] /\ FinishStopped(f) /\ UNCHANGED <<abort_required, aborted>>
    <3>1. UNCHANGED <<terminal, interrupted, acked, aborted>>
      BY <1>1, <2>1, Zenon
    <3> QED
      BY <1>1, <2>1, <3>1, StopIsSeen, Zenon
  <2> QED
    BY <1>3, <1>4, <1>6, <2>1, Zenon DEF NotPrepared
<1>7. CASE RejectWindow(f) \/ FailAfterPanic(f)
  BY <1>3, <1>7, Zenon DEF RejectWindow, FailAfterPanic
<1>8. CASE NotCompleted(f)
  BY <1>3, <1>5, <1>8, Zenon DEF NotCompleted
<1> QED
  BY <1>6, <1>7, <1>8, Zenon

\* complete() has succeeded.
LEMMA CompletionIsSeen ==
  ASSUME NEW f \in File, IInv, Completed(f)
  PROVE  Contract(f)!Next
<1>1. /\ driver[f] = "claimed" /\ acked'[f] = TRUE
      /\ UNCHANGED <<terminal, interrupted, aborted>>
      /\ Finish(f, "Completed") \/ (DirOf[f] = "Download" /\ Finish(f, "Failed"))
  BY Zenon DEF Completed, IInv, TypeOK
<1>2. TypeOK
  BY Zenon DEF IInv
<1>3. WorkerOf(f) = "finishing"
  BY <1>1, <1>2, Phases, Zenon
<1>4. WorkerOf(f)' = "exit" /\ (outbox'[f] = "Completed" \/ (DirOf[f] = "Download" /\ outbox'[f] = "Failed"))
  BY <1>1, <1>2, FinishFacts, Zenon
<1>5. Contract(f)!ReportedDone
  BY <1>1, <1>3, <1>4, Zenon DEF Contract!ReportedDone, Contract!Finish
<1> QED
  BY <1>5, Zenon DEF Contract!Next

\* A pause or a cancel is requested.
LEMMA RequestIsSeen ==
  ASSUME NEW f \in File, IInv, RequestPause(f) \/ RequestCancel(f)
  PROVE  Contract(f)!Next
<1>1. /\ driver[f] # "exit" /\ UNCHANGED <<driver, outbox, acked, aborted>>
      /\ interrupted' = [interrupted EXCEPT ![f] = @ \/ InterruptNow(terminal[f])]
  BY Zenon DEF RequestPause, RequestCancel, RequestStop, Active
<1>2. WorkerOf(f)' = WorkerOf(f)
  BY <1>1, Zenon DEF WorkerOf
<1>3. WorkerOf(f) # "exit"
  BY <1>1, Phases, Zenon DEF IInv
<1>4. interrupted'[f] = (interrupted[f] \/ InterruptNow(terminal[f]))
  BY <1>1, Zenon DEF IInv, TypeOK
<1>5. InterruptNow(terminal[f]) <=> Contract(f)!InterruptNow(terminal[f])
  BY Zenon DEF InterruptNow, Contract!InterruptNow, Claimed, Contract!Claimed, COMPLETING,
       Contract!COMPLETING, COMPLETING_CANCEL_PENDING, Contract!COMPLETING_CANCEL_PENDING,
       COMPLETING_PAUSE_PENDING, Contract!COMPLETING_PAUSE_PENDING
<1>6. interrupted'[f] = (interrupted[f] \/ Contract(f)!InterruptNow(terminal[f]))
  BY <1>4, <1>5, Zenon
<1>7. CASE RequestPause(f)
  <2>1. terminal'[f] = BeginPause(terminal[f])
    BY <1>7, Zenon DEF RequestPause, RequestStop, IInv, TypeOK
  <2>2. BeginPause(terminal[f]) = Contract(f)!BeginPause(terminal[f])
    BY DEF BeginPause, Contract!BeginPause, OPEN, Contract!OPEN, PAUSING, Contract!PAUSING,
           COMPLETING, Contract!COMPLETING, COMPLETING_PAUSE_PENDING,
           Contract!COMPLETING_PAUSE_PENDING
  <2>3. Contract(f)!RequestPause
    BY <1>1, <1>2, <1>6, <2>1, <2>2, Zenon DEF Contract!RequestPause
  <2> QED
    BY <1>3, <2>3, Zenon DEF Contract!Next, Contract!Active
<1>8. CASE RequestCancel(f)
  <2>1. terminal'[f] = BeginCancel(terminal[f])
    BY <1>8, Zenon DEF RequestCancel, RequestStop, IInv, TypeOK
  <2>2. BeginCancel(terminal[f]) = Contract(f)!BeginCancel(terminal[f])
    BY <1>5, Zenon DEF BeginCancel, Contract!BeginCancel, CANCELING, Contract!CANCELING,
           COMPLETING_CANCEL_PENDING, Contract!COMPLETING_CANCEL_PENDING
  <2>3. Contract(f)!RequestCancel
    BY <1>1, <1>2, <1>6, <2>1, <2>2, Zenon DEF Contract!RequestCancel
  <2> QED
    BY <1>3, <2>3, Zenon DEF Contract!Next, Contract!Active
<1> QED
  BY <1>7, <1>8, Zenon

\* The steps of the window are not seen by the scheduler.
LEMMA WindowIsUnseen ==
  ASSUME NEW f \in File, IInv,
         \/ OpenWindow(f) \/ Dispatch(f)
         \/ \E o \in Offsets(f) :
              JoinDone(f, o) \/ JoinStopped(f, o) \/ JoinPanicked(f, o) \/ Drain(f, o)
  PROVE  UNCHANGED Contract(f)!vars
<1>1. TypeOK /\ driver \in [File -> {"prepare", "begin", "fill", "join", "drain", "claimed", "exit"}]
  BY Zenon DEF IInv, TypeOK
<1>2. UNCHANGED <<terminal, interrupted, outbox, acked, aborted>>
  BY Zenon DEF OpenWindow, Dispatch, JoinDone, JoinStopped, JoinPanicked, Drain
<1>3. \/ driver'[f] = driver[f]
      \/ {driver[f], driver'[f]} \subseteq {"begin", "fill", "join", "drain"}
  <2>1. CASE OpenWindow(f)
    BY <1>1, <2>1, Zenon DEF OpenWindow
  <2>2. CASE Dispatch(f)
    <3>1. CASE CanDispatch(Cut(f), window[f])
      BY <2>2, <3>1, Zenon DEF Dispatch
    <3>2. CASE ~CanDispatch(Cut(f), window[f])
      BY <1>1, <2>2, <3>2, Zenon DEF Dispatch
    <3> QED
      BY <3>1, <3>2, Zenon
  <2>3. ASSUME NEW o \in Offsets(f), JoinDone(f, o)
        PROVE  {driver[f], driver'[f]} \subseteq {"begin", "fill", "join", "drain"}
    <3>1. driver[f] = "join" /\ driver'[f] = IF Healthy(f) THEN "fill" ELSE "join"
      BY <1>1, <2>3, Zenon DEF JoinDone
    <3> QED
      BY <3>1, Zenon
  <2>4. ASSUME NEW o \in Offsets(f), JoinStopped(f, o) \/ Drain(f, o)
        PROVE  driver'[f] = driver[f]
    BY <2>4, Zenon DEF JoinStopped, Drain
  <2>5. ASSUME NEW o \in Offsets(f), JoinPanicked(f, o)
        PROVE  {driver[f], driver'[f]} \subseteq {"begin", "fill", "join", "drain"}
    BY <1>1, <2>5, Zenon DEF JoinPanicked
  <2> QED
    BY <2>1, <2>2, <2>3, <2>4, <2>5, Zenon
<1> QED
  BY <1>1, <1>2, <1>3, UnseenStep, Zenon

\* A step of the driver of one file is none of another.
LEMMA OthersUnseen ==
  ASSUME NEW f \in File, NEW h \in File \ {f}, IInv,
         RequestPause(f) \/ RequestCancel(f) \/ DriverStep(f)
  PROVE  UNCHANGED Contract(h)!vars
<1>1. TypeOK
  BY Zenon DEF IInv
<1>2. CASE RequestPause(f) \/ RequestCancel(f)
  <2>1. Unseen(h)
    BY <1>1, <1>2, Zenon DEF RequestPause, RequestCancel, RequestStop, Unseen, TypeOK
  <2> QED
    BY <1>1, <2>1, UnseenStep, Zenon DEF Unseen
<1>3. CASE Prepared(f) \/ OpenWindow(f)
  <2>1. Unseen(h)
    BY <1>1, <1>3, Zenon DEF Prepared, OpenWindow, Unseen, TypeOK
  <2> QED
    BY <1>1, <2>1, UnseenStep, Zenon DEF Unseen
<1>4. CASE Dispatch(f)
  <2>1. driver'[h] = driver[h]
    BY <1>1, <1>4, Zenon DEF Dispatch, TypeOK
  <2>2. Unseen(h)
    BY <1>4, <2>1, Zenon DEF Dispatch, Unseen
  <2> QED
    BY <1>1, <2>2, UnseenStep, Zenon DEF Unseen
<1>5. ASSUME NEW o \in Offsets(f),
             JoinDone(f, o) \/ JoinStopped(f, o) \/ JoinPanicked(f, o) \/ Drain(f, o)
      PROVE  UNCHANGED Contract(h)!vars
  <2>1. driver'[h] = driver[h]
    BY <1>1, <1>5, Zenon DEF JoinDone, JoinStopped, JoinPanicked, Drain, TypeOK
  <2>2. Unseen(h)
    BY <1>5, <2>1, Zenon DEF JoinDone, JoinStopped, JoinPanicked, Drain, Unseen
  <2> QED
    BY <1>1, <2>2, UnseenStep, Zenon DEF Unseen
<1>6. ASSUME NEW ev, Finish(f, ev) PROVE driver'[h] = driver[h] /\ outbox'[h] = outbox[h]
  BY <1>1, <1>6, FinishFacts, Zenon
<1>7. ASSUME FinishStopped(f) PROVE driver'[h] = driver[h] /\ outbox'[h] = outbox[h]
  BY <1>6, <1>7, Zenon DEF FinishStopped
<1>8. ASSUME DropSession(f) PROVE aborted'[h] = aborted[h]
  BY <1>1, <1>8, Zenon DEF DropSession, TypeOK
<1>9. ASSUME ClaimOrStop(f)
      PROVE  driver'[h] = driver[h] /\ outbox'[h] = outbox[h] /\ terminal'[h] = terminal[h]
  <2>1. CASE CanClaim(terminal[f])
    BY <1>1, <1>9, <2>1, Zenon DEF ClaimOrStop, TypeOK
  <2>2. CASE ~CanClaim(terminal[f])
    BY <1>7, <1>9, <2>2, Zenon DEF ClaimOrStop
  <2> QED
    BY <2>1, <2>2, Zenon
<1>10. CASE NotPrepared(f) \/ RejectWindow(f) \/ FailAfterPanic(f)
  <2>1. driver'[h] = driver[h] /\ outbox'[h] = outbox[h] /\ aborted'[h] = aborted[h]
    BY <1>6, <1>7, <1>8, <1>10, Zenon DEF NotPrepared, RejectWindow, FailAfterPanic
  <2>2. Unseen(h)
    BY <1>10, <2>1, Zenon DEF NotPrepared, RejectWindow, FailAfterPanic, Unseen
  <2> QED
    BY <1>1, <2>2, UnseenStep, Zenon DEF Unseen
<1>11. CASE ResumeAtTotal(f)
  <2>1. Unseen(h)
    BY <1>9, <1>11, Zenon DEF ResumeAtTotal, Unseen
  <2> QED
    BY <1>1, <2>1, UnseenStep, Zenon DEF Unseen
<1>12. CASE Settle(f)
  <2>1. driver'[h] = driver[h] /\ outbox'[h] = outbox[h] /\ terminal'[h] = terminal[h]
    BY <1>6, <1>7, <1>9, <1>12, Zenon DEF Settle
  <2>2. aborted'[h] = aborted[h]
    BY <1>1, <1>12, Zenon DEF Settle, TypeOK
  <2>3. Unseen(h)
    BY <1>12, <2>1, <2>2, Zenon DEF Settle, Unseen
  <2> QED
    BY <1>1, <2>3, UnseenStep, Zenon DEF Unseen
<1>13. CASE Completed(f)
  <2>1. driver'[h] = driver[h] /\ outbox'[h] = outbox[h]
    BY <1>6, <1>13, Zenon DEF Completed
  <2>2. Unseen(h)
    BY <1>1, <1>13, <2>1, Zenon DEF Completed, Unseen, TypeOK
  <2> QED
    BY <1>1, <2>2, UnseenStep, Zenon DEF Unseen
<1>14. CASE NotCompleted(f)
  <2>1. driver'[h] = driver[h] /\ outbox'[h] = outbox[h]
    BY <1>6, <1>14, Zenon DEF NotCompleted
  <2>2. aborted'[h] = aborted[h]
    BY <1>1, <1>8, <1>14, Zenon DEF NotCompleted, TypeOK
  <2>3. Unseen(h)
    BY <1>14, <2>1, <2>2, Zenon DEF NotCompleted, Unseen
  <2> QED
    BY <1>1, <2>3, UnseenStep, Zenon DEF Unseen
<1> QED
  BY <1>2, <1>3, <1>4, <1>5, <1>10, <1>11, <1>12, <1>13, <1>14, Zenon DEF DriverStep

\* Every step of the group is a step of the contract of each file, or none.
LEMMA ContractStep ==
  ASSUME IInv, [Next]_vars, NEW f \in File
  PROVE  Contract(f)!Next \/ UNCHANGED Contract(f)!vars
<1>1. TypeOK
  BY Zenon DEF IInv
<1>2. ASSUME UNCHANGED partStep PROVE UNCHANGED Contract(f)!vars
  <2>1. UNCHANGED <<driver, terminal, interrupted, outbox, acked, aborted>>
    BY <1>2, Zenon DEF partStep
  <2> QED
    BY <1>1, <2>1, UnseenStep, Zenon
<1>3. CASE Grant
  BY <1>2, <1>3, Zenon DEF Grant
<1>4. ASSUME NEW h \in File, NEW o \in Offsets(h), PartStep(h, o)
      PROVE  UNCHANGED Contract(f)!vars
  BY <1>2, <1>4, Zenon DEF PartStep, Acquire, StopWaiting, PartDone, PartStops, PartFails
<1>5. CASE UNCHANGED vars
  BY <1>2, <1>5, Zenon DEF vars, partStep
<1>6. CASE RequestPause(f) \/ RequestCancel(f)
  BY <1>6, RequestIsSeen, Zenon
<1>7. ASSUME DriverStep(f) PROVE Contract(f)!Next \/ UNCHANGED Contract(f)!vars
  <2>1. CASE Prepared(f)
    BY <2>1, PreparedIsSeen, Zenon
  <2>2. CASE NotPrepared(f) \/ RejectWindow(f) \/ FailAfterPanic(f) \/ NotCompleted(f)
    BY <2>2, FailuresAreSeen, Zenon
  <2>3. CASE ResumeAtTotal(f)
    <3>1. /\ ClaimOrStop(f) /\ driver[f] \in {"begin", "join"}
          /\ UNCHANGED <<interrupted, acked, aborted>>
      BY <2>3, Zenon DEF ResumeAtTotal
    <3> QED
      BY <3>1, ClaimIsSeen, Zenon
  <2>4. CASE \/ OpenWindow(f) \/ Dispatch(f)
             \/ \E o \in Offsets(f) :
                  JoinDone(f, o) \/ JoinStopped(f, o) \/ JoinPanicked(f, o) \/ Drain(f, o)
    BY <2>4, WindowIsUnseen, Zenon
  <2>5. CASE Settle(f)
    BY <2>5, SettleIsSeen, Zenon
  <2>6. CASE Completed(f)
    BY <2>6, CompletionIsSeen, Zenon
  <2> QED
    BY <1>7, <2>1, <2>2, <2>3, <2>4, <2>5, <2>6, Zenon DEF DriverStep
<1>8. ASSUME NEW h \in File \ {f}, RequestPause(h) \/ RequestCancel(h) \/ DriverStep(h)
      PROVE  UNCHANGED Contract(f)!vars
  BY <1>8, OthersUnseen, Zenon
<1>9. ASSUME NEW h \in File, RequestPause(h) \/ RequestCancel(h) \/ DriverStep(h)
      PROVE  Contract(f)!Next \/ UNCHANGED Contract(f)!vars
  BY <1>6, <1>7, <1>8, <1>9, Zenon
<1> QED
  BY <1>3, <1>4, <1>5, <1>9, Zenon DEF Next

\* The scheduler's view of a file that has not started.
LEMMA ContractInit ==
  ASSUME Init, NEW f \in File
  PROVE  Contract(f)!Init
<1>1. /\ driver[f] = "prepare" /\ terminal[f] = OPEN /\ interrupted[f] = FALSE
      /\ outbox[f] = "none" /\ acked[f] = FALSE /\ aborted[f] = FALSE
  BY Zenon DEF Init
<1>2. WorkerOf(f) = "prepare"
  BY <1>1 DEF WorkerOf
<1> QED
  BY <1>1, <1>2, Zenon DEF Contract!Init, OPEN, Contract!OPEN

\* What the invariant says of the properties.
LEMMA Consequences ==
  ASSUME IInv
  PROVE  PrefixIsStored /\ CompletedIsWhole /\ WindowCount /\ Quiescent /\ FailureWins
<1>1. \A f \in File : PhaseInv(f) /\ StoreInv(f) /\ WindowInv(f) /\ EndInv(f)
  BY Zenon DEF IInv, FileInv
<1>2. PrefixIsStored /\ CompletedIsWhole
  BY <1>1, Zenon DEF PrefixIsStored, CompletedIsWhole, StoreInv
<1>3. WindowCount
  BY <1>1, Zenon DEF WindowCount, WindowInv
<1>4. Quiescent
  <2>1. \A f \in File : driver[f] \in {"claimed", "exit"} => driver[f] \notin Running
    BY DEF Running
  <2> QED
    BY <1>1, <2>1, Zenon DEF Quiescent, PhaseInv, EndInv
<1>5. ASSUME NEW f \in File, failed[f] \/ driver[f] = "drain" \/ abort_required[f]
      PROVE  /\ ~acked[f] /\ outbox[f] \in {"none", "Failed"}
             /\ outbox[f] = "Failed" /\ abort_required[f] => aborted[f]
  <2>1. EndInv(f)
    BY <1>1, Zenon
  <2>2. CASE driver[f] = "exit"
    <3>1. failed[f] \/ abort_required[f]
      BY <1>5, <2>2
    <3> QED
      BY <2>1, <2>2, <3>1, Zenon DEF EndInv
  <2>3. CASE driver[f] # "exit"
    <3>1. ~acked[f] /\ outbox[f] = "none" /\ outbox[f] # "Failed"
      BY <2>1, <2>3, Zenon DEF EndInv
    <3> QED
      BY <3>1, Zenon
  <2> QED
    BY <2>2, <2>3, Zenon
<1> QED
  BY <1>2, <1>3, <1>4, <1>5, Zenon DEF FailureWins

-----------------------------------------------------------------------------
(* The theorems                                                            *)

\* The inductive invariant holds, whatever the files, the window and the budget.
THEOREM GroupInvariant ==
  ASSUME Constants
  PROVE  Spec => []IInv
<1>1. Init => IInv
  BY InitInv
<1>2. IInv /\ [Next]_vars => IInv'
  BY StepPreserves
<1> QED
  BY <1>1, <1>2, PTL DEF Spec

\* Parts that come back in any order never let the scheduler be told of an
\* offset below which a byte is missing, and Completed is only sent for a file
\* that is stored in full (PartWindow::on_done, run_group_parallel).
THEOREM PrefixHolds ==
  ASSUME Constants
  PROVE  Spec => [](PrefixIsStored /\ CompletedIsWhole)
<1>1. IInv => PrefixIsStored /\ CompletedIsWhole
  BY Consequences
<1>2. Spec => []IInv
  BY GroupInvariant
<1> QED
  BY <1>1, <1>2, PTL

\* The window counts the tasks of the JoinSet, every waiter of the budget is a
\* part that waits, no part runs once completion is claimed, the session aborted
\* or the terminal event decided, and no failure or panic of a part is hidden
\* by a stop or by completion (run_group_parallel).
THEOREM PartsAreJoined ==
  ASSUME Constants
  PROVE  Spec => [](WindowCount /\ QueueIsLive /\ Quiescent /\ FailureWins)
<1>1. IInv => WindowCount /\ QueueIsLive /\ Quiescent /\ FailureWins
  BY Consequences DEF IInv
<1>2. Spec => []IInv
  BY GroupInvariant
<1> QED
  BY <1>1, <1>2, PTL

\* The driver of every file implements the worker that the scheduler relies on:
\* the gate is claimed before completion, stops are obeyed, and there is one
\* answer (GroupWorker).
THEOREM DriverKeepsContract ==
  ASSUME Constants, NEW f \in File
  PROVE  Spec => Contract(f)!Spec
<1>1. Init => Contract(f)!Init
  BY ContractInit
<1>2. IInv /\ [Next]_vars => [Contract(f)!Next]_(Contract(f)!vars)
  BY ContractStep
<1>3. Spec => []IInv
  BY GroupInvariant
<1> QED
  BY <1>1, <1>2, <1>3, PTL DEF Spec, Contract!Spec

\* The same for all files at once, as the step property that the model checker
\* is given.
THEOREM GroupKeepsContract ==
  ASSUME Constants
  PROVE  Spec => [][KeepsContract]_vars
<1>1. IInv /\ [Next]_vars => [KeepsContract]_vars
  BY ContractStep DEF KeepsContract
<1>2. Spec => []IInv
  BY GroupInvariant
<1> QED
  BY <1>1, <1>2, PTL DEF Spec

\* Progress goes forward: once prepare has fixed where a file resumes, no step
\* lowers the offset that was reported (PartWindow::on_done).
ReportsGrow == \A f \in File : driver[f] # "prepare" => reported[f] <= reported'[f]

\* The two steps that report an offset, and all the others.
LEMMA StepReports ==
  ASSUME Constants, IInv, [Next]_vars
  PROVE  ReportsGrow
<1>1. ASSUME UNCHANGED reported PROVE ReportsGrow
  <2>1. \A f \in File : reported[f] \in Nat
    BY Zenon DEF IInv, TypeOK
  <2> QED
    BY <1>1, <2>1 DEF ReportsGrow
<1>2. CASE Grant
  BY <1>1, <1>2, Zenon DEF Grant, partStep
<1>3. ASSUME NEW h \in File, NEW o \in Offsets(h), PartStep(h, o) PROVE ReportsGrow
  BY <1>1, <1>3, Zenon DEF PartStep, Acquire, StopWaiting, PartDone, PartStops, PartFails, partStep
<1>4. CASE UNCHANGED vars
  BY <1>1, <1>4, Zenon DEF vars
<1>5. ASSUME NEW h \in File, RequestPause(h) \/ RequestCancel(h) PROVE ReportsGrow
  BY <1>1, <1>5, Zenon DEF RequestPause, RequestCancel, RequestStop
<1>6. ASSUME NEW h \in File, NEW n \in Nat, reported' = [reported EXCEPT ![h] = n],
             driver[h] = "prepare" \/ reported[h] <= n
      PROVE  ReportsGrow
  <2>1. reported \in [File -> Nat]
    BY Zenon DEF IInv, TypeOK
  <2> SUFFICES ASSUME NEW f \in File, driver[f] # "prepare" PROVE reported[f] <= reported'[f]
    BY Zenon DEF ReportsGrow
  <2>2. CASE f = h
    BY <1>6, <2>1, <2>2
  <2>3. CASE f # h
    BY <1>6, <2>1, <2>3
  <2> QED
    BY <2>2, <2>3, Zenon
<1>7. ASSUME NEW h \in File, Prepared(h) PROVE ReportsGrow
  <2>1. PICK from \in Starts[h] : reported' = [reported EXCEPT ![h] = from]
    BY <1>7, Zenon DEF Prepared
  <2>2. from \in Nat
    BY Zenon DEF Constants
  <2>3. driver[h] = "prepare"
    BY <1>7, Zenon DEF Prepared
  <2> QED
    BY <1>6, <2>1, <2>2, <2>3, Zenon
<1>8. ASSUME NEW h \in File, NEW o \in Offsets(h), JoinDone(h, o) PROVE ReportsGrow
  <2> DEFINE w == window[h]
             done == w.completed \cup {o}
             mark == Absorb(Cut(h), w.watermark, done)
             v == OnDone(Cut(h), w, o)
  <2>1. /\ driver[h] = "join" /\ part[h][o] = "done" /\ part' = [part EXCEPT ![h][o] = "joined"]
        /\ UNCHANGED waiters
        /\ reported' = [reported EXCEPT ![h] = IF v.watermark # w.watermark
                                               THEN v.watermark ELSE @]
    BY <1>8, Zenon DEF JoinDone, Joins
  <2>2. /\ w.watermark \in Boundaries(Cut(h)) /\ reported[h] = w.watermark /\ w \in Windows
        /\ \A p \in w.completed : p \in Offsets(h)
    BY <2>1, Zenon DEF IInv, FileInv, WindowInv, TypeOK
  <2>3. Grid(Cut(h)) /\ Cut(h).total = Total[h] /\ Total[h] \in Nat
    BY CutIsGrid, Zenon DEF IInv, FileInv
  <2>4. \A p \in done : p < Cut(h).total
    <3>1. \A p \in done : p \in Offsets(h)
      BY <2>2, Zenon
    <3> HIDE DEF done
    <3> QED
      BY <2>3, <3>1 DEF Offsets
  <2>5. w.watermark <= mark
    <3> HIDE DEF done
    <3> QED
      BY <2>2, <2>3, <2>4, AbsorbFacts, Zenon
  <2>6. part[h][o] \in Finished
    BY <2>1 DEF Finished
  <2>7. Cardinality(LiveParts(h)) \in Nat \ {0}
    BY <2>1, <2>6, PartJoined, Zenon
  <2>8. v.watermark \in Nat
    BY <2>1, <2>7, OnDoneFacts, Zenon
  <2>9. v.watermark = mark
    BY <2>2 DEF OnDone, Windows
  <2> HIDE DEF v, mark, done
  <2>10. PICK n \in Nat : n = v.watermark
    BY <2>8, Zenon
  <2>11. reported' = [reported EXCEPT ![h] = n] /\ reported[h] <= n
    BY <2>1, <2>2, <2>5, <2>9, <2>10, Zenon
  <2> QED
    BY <1>6, <2>11, Zenon
<1>9. ASSUME NEW h \in File, DriverStep(h) PROVE ReportsGrow
  <2>1. CASE \/ NotPrepared(h) \/ RejectWindow(h) \/ ResumeAtTotal(h) \/ OpenWindow(h)
             \/ Dispatch(h) \/ FailAfterPanic(h) \/ Settle(h) \/ Completed(h) \/ NotCompleted(h)
    <3>1. UNCHANGED reported
      BY <2>1, Zenon DEF NotPrepared, RejectWindow, ResumeAtTotal, OpenWindow, Dispatch,
                         FailAfterPanic, Settle, Completed, NotCompleted
    <3> QED
      BY <1>1, <3>1, Zenon
  <2>2. ASSUME NEW o \in Offsets(h), JoinStopped(h, o) \/ JoinPanicked(h, o) \/ Drain(h, o)
        PROVE  ReportsGrow
    BY <1>1, <2>2, Zenon DEF JoinStopped, JoinPanicked, Drain
  <2> QED
    BY <1>7, <1>8, <1>9, <2>1, <2>2, Zenon DEF DriverStep
<1> QED
  BY <1>2, <1>3, <1>4, <1>5, <1>9, Zenon DEF Next

\* The reported offset of a running file never goes back.
THEOREM ProgressGoesForward ==
  ASSUME Constants
  PROVE  Spec => [][ReportsGrow]_vars
<1>1. IInv /\ [Next]_vars => ReportsGrow
  BY StepReports
<1>2. Spec => []IInv
  BY GroupInvariant
<1> QED
  BY <1>1, <1>2, PTL DEF Spec
=============================================================================
