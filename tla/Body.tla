---- MODULE Body ----
(***************************************************************************)
(* The bytes of one download: how handle_download of src/src/download.rs   *)
(* turns a Range into a head that is fetched before the response and       *)
(* windows of at most 1 MB that are fetched several at a time and sent in  *)
(* order, and how src/src/telegram.rs fetches a window in parts.           *)
(*                                                                         *)
(* A byte is its position in the file, and a piece of file is [at, len].   *)
(* Who may fetch when is the module Gate; here any window the pipeline     *)
(* has started may be the next to end.                                     *)
(***************************************************************************)
EXTENDS Integers, Sequences

CONSTANTS
    Mb,           \* MB
    PartSizes,    \* 4096 * 2^k up to MAX_CHUNK
    Prime,        \* PRIME_BYTES
    Depth,        \* pipeline_depth()
    Blank,        \* a Range bound that is left out
    Junk,         \* a Range bound that is no number
    Sizes,        \* bound: the sizes a file may have
    MaxPos,       \* bound: the largest number in a Range
    MaxAttempts   \* attempts of the pre-flight

MinChunk == CHOOSE v \in PartSizes : \A w \in PartSizes : v <= w

MaxChunk == CHOOSE v \in PartSizes : \A w \in PartSizes : v >= w

ASSUME PartsAssumption ==
    /\ Mb \in Nat \ {0} /\ PartSizes # {} /\ PartSizes \subseteq 1 .. Mb
    /\ \A v \in PartSizes :
           /\ Mb % v = 0 /\ MaxChunk % v = 0 /\ v % MinChunk = 0
           /\ v = MaxChunk \/ 2 * v \in PartSizes

ASSUME HeadAssumption == Prime \in 1 .. MaxChunk /\ Mb = 2 * MaxChunk /\ Depth \in Nat \ {0}

(* A file that has no size is refused before. *)
ASSUME SizesAssumption == Sizes \subseteq Nat \ {0} /\ MaxPos \in Nat /\ MaxAttempts \in Nat \ {0}

(* "bytes=first-last", or no Range at all. *)
Bounds == 0 .. MaxPos \cup {Blank, Junk}

ASSUME BoundsAssumption == Blank \notin Nat /\ Junk \notin Nat /\ Blank # Junk

NoRange == <<>>

Headers == {NoRange} \cup (Bounds \X Bounds)

VARIABLES
    stage,      \* where the download is
    header,     \* the Range of the request
    declared,   \* file_size when the Range was read
    size,       \* file_size now, which is that of the file
    start,      \* the first byte asked for
    end,        \* and the last
    attempt,    \* attempts of the pre-flight that failed
    skip,       \* bytes still to be thrown away
    remaining,  \* bytes still to be sent
    plan,       \* the windows
    taken,      \* how many of them the body has taken from the pipeline
    ready,      \* the windows that are fetched, by number
    sent        \* the pieces the client was sent, each with its place in the body

vars == <<stage, header, declared, size, start, end, attempt, skip, remaining, plan, taken, ready, sent>>

Stages == {"asked", "prime", "body", "done", "refused", "broken", "closed"}

Least(x, y) == IF x < y THEN x ELSE y

(* x.saturating_sub(y) *)
Minus(x, y) == IF x > y THEN x - y ELSE 0

Piece(at, len) == [at |-> at, len |-> len]

-----------------------------------------------------------------------------
(* Ranges, heads and windows *)

NoBytes == [first |-> 0, last |-> -1]

(* Fault: the last byte is not brought down to the end of the file. *)
ParseOpen(h, n) ==
    IF h[1] = Junk \/ (h[1] = Blank /\ h[2] \in {Blank, Junk, 0}) THEN NoBytes
    ELSE IF h[1] = Blank THEN [first |-> Minus(n, h[2]), last |-> n - 1]
    ELSE IF h[1] >= n THEN NoBytes
    ELSE [first |-> h[1], last |-> IF h[2] \in {Blank, Junk} THEN n - 1 ELSE h[2]]

(* parse_range_header for a file of n bytes. *)
Parse(h, n) ==
    LET last == IF h[2] \in {Blank, Junk} THEN n - 1 ELSE Least(h[2], n - 1) IN
    IF h[1] = Junk \/ (h[1] = Blank /\ h[2] \in {Blank, Junk, 0}) THEN NoBytes
    ELSE IF h[1] = Blank THEN [first |-> Minus(n, h[2]), last |-> n - 1]
    ELSE IF h[1] >= n \/ last < h[1] THEN NoBytes
    ELSE [first |-> h[1], last |-> last]

(* plan_limit: the part size for want bytes from pos. *)
PlanLimit(pos, want) ==
    LET cap == Least(want, Mb - (pos % Mb))
        fits == {v \in PartSizes : v <= cap /\ pos % v = 0}
    IN CHOOSE v \in fits \cup {MinChunk} : \A w \in fits : v >= w

(* fetch_range_core: whole parts from the one that holds pos, cut to want. *)
Fetch(pos, want) ==
    LET limit == PlanLimit(pos, want)
        from == (pos \div limit) * limit
    IN Piece(from, Least(want, Minus(size, from)))

PartsOf(w) ==
    LET limit == PlanLimit(w.at, w.len) IN (w.len + limit - 1) \div limit

Aligned == (start \div Mb) * Mb

Total == end - start + 1

(* Fault: the head is not rounded up to whole parts. *)
HeadWantExact ==
    Least(Least((start - Aligned) + Least(Total, Prime), Mb), Minus(declared, Aligned))

(* prime_window: from Aligned past start, in whole parts, no further than  *)
(* 1 MB or the end of the file.                                            *)
HeadWant ==
    LET want == (start - Aligned) + Least(Total, Prime) IN
    Least(Least(((want + MaxChunk - 1) \div MaxChunk) * MaxChunk, Mb), Minus(declared, Aligned))

(* prime_split: a head of more than a part is two fetches. *)
HeadParts ==
    IF HeadWant <= MaxChunk THEN <<Piece(Aligned, HeadWant)>>
    ELSE <<Piece(Aligned, MaxChunk), Piece(Aligned + MaxChunk, HeadWant - MaxChunk)>>

(* What the parts of the head give, put together. *)
Primed ==
    LET got == [n \in 1 .. Len(HeadParts) |-> Fetch(HeadParts[n].at, HeadParts[n].len)] IN
    Piece(Aligned, IF Len(got) = 1 THEN got[1].len ELSE got[1].len + got[2].len)

(* Faults: the first window does not end on a boundary, and the last is    *)
(* not cut to the end of the file; what is left after whole blocks is      *)
(* dropped.                                                                *)
WindowsPast(p, rem) ==
    LET stop == p + rem IN
    [k \in 1 .. (Minus(stop, p) + Mb - 1) \div Mb |->
        Piece(p + (k - 1) * Mb, Least(Mb, stop - (p + (k - 1) * Mb)))]

WindowsWhole(p, rem) ==
    LET stop == Least(p + rem, size)
        block == p \div Mb
    IN IF p >= stop THEN <<>>
       ELSE [k \in 1 .. stop \div Mb - block |->
                LET at == IF k = 1 THEN p ELSE (block + k - 1) * Mb IN
                Piece(at, Least((block + k) * Mb, stop) - at)]

(* The plan for the rem bytes from p, or those that the file has: cut at   *)
(* every multiple of 1 MB, the rest of the block that p is in first.       *)
Windows(p, rem) ==
    LET stop == Least(p + rem, size)
        block == p \div Mb
    IN IF p >= stop THEN <<>>
       ELSE [k \in 1 .. (stop - 1) \div Mb - block + 1 |->
                LET at == IF k = 1 THEN p ELSE (block + k - 1) * Mb IN
                Piece(at, Least((block + k) * Mb, stop) - at)]

-----------------------------------------------------------------------------

Init ==
    /\ stage = "asked"
    /\ header \in Headers
    /\ declared \in Sizes
    /\ size = declared
    /\ start = 0 /\ end = 0 /\ attempt = 0 /\ skip = 0 /\ remaining = 0
    /\ plan = <<>> /\ taken = 0 /\ ready = {} /\ sent = {}

(* The Range is one the file has, or there is none. *)
Accept ==
    LET r == IF header = NoRange THEN [first |-> 0, last |-> declared - 1] ELSE Parse(header, declared) IN
    /\ stage = "asked" /\ r # NoBytes
    /\ stage' = "prime"
    /\ start' = r.first /\ end' = r.last
    /\ UNCHANGED <<header, declared, size, attempt, skip, remaining, plan, taken, ready, sent>>

(* 416 *)
Unsatisfiable ==
    /\ stage = "asked" /\ header # NoRange /\ Parse(header, declared) = NoBytes
    /\ stage' = "refused"
    /\ UNCHANGED <<header, declared, size, start, end, attempt, skip, remaining, plan, taken, ready, sent>>

(* The head fails, for one that starts past the end of the file because it *)
(* must; a new reference may be of a file of another size.                 *)
HeadFails ==
    /\ stage = "prime" /\ attempt < MaxAttempts
    /\ attempt' = attempt + 1
    /\ size' \in IF attempt' < MaxAttempts THEN Sizes ELSE {size}
    /\ stage' = IF attempt' < MaxAttempts THEN "prime" ELSE "broken"
    /\ UNCHANGED <<header, declared, start, end, skip, remaining, plan, taken, ready, sent>>

(* 415: a file that starts like a program. *)
Disguised ==
    /\ stage = "prime" /\ start = 0 /\ Primed.len > 0
    /\ stage' = "refused"
    /\ UNCHANGED <<header, declared, size, start, end, attempt, skip, remaining, plan, taken, ready, sent>>

(* The headers go out, then the part of the head that was asked for, and   *)
(* the windows after it are planned.                                       *)
Commit ==
    LET before == start - Aligned
        take == IF before < Primed.len THEN Least(Primed.len - before, Total) ELSE 0
        left == IF Primed.len > 0 THEN Minus(before, Primed.len) ELSE before
    IN
    /\ stage = "prime"
    /\ stage' = "body"
    /\ sent' = IF take = 0 THEN {} ELSE {[off |-> 0, at |-> start, len |-> take]}
    /\ remaining' = Total - take
    /\ skip' = IF take > 0 THEN 0 ELSE left
    /\ plan' = Windows(Aligned + Primed.len, (Total - take) + (IF take > 0 THEN 0 ELSE left))
    /\ UNCHANGED <<header, declared, size, start, end, attempt, taken, ready>>

(* Fault: every window of the plan is fetched at once. *)
ReadyAtOnce(k) ==
    /\ stage = "body" /\ k \in (taken + 1 .. Len(plan)) \ ready
    /\ ready' = ready \cup {k}
    /\ UNCHANGED <<stage, header, declared, size, start, end, attempt, skip, remaining, plan, taken, sent>>

(* A window is fetched: it is one of the next Depth of the plan. *)
Ready(k) ==
    /\ stage = "body" /\ k \in (taken + 1 .. Least(taken + Depth, Len(plan))) \ ready
    /\ ready' = ready \cup {k}
    /\ UNCHANGED <<stage, header, declared, size, start, end, attempt, skip, remaining, plan, taken, sent>>

(* Window k is taken from the pipeline and goes out, but for what is to be *)
(* thrown away first and what nobody asked for.                            *)
Send(k) ==
    LET data == Fetch(plan[k].at, plan[k].len)
        cut == Least(skip, data.len)
        take == Least(data.len - cut, remaining)
    IN
    /\ stage = "body" /\ remaining > 0 /\ k \in ready
    /\ sent' = IF take = 0 THEN sent
               ELSE sent \cup {[off |-> Total - remaining, at |-> data.at + cut, len |-> take]}
    /\ remaining' = remaining - take
    /\ skip' = 0
    /\ taken' = taken + 1
    /\ UNCHANGED <<stage, header, declared, size, start, end, attempt, plan>>

(* Fault: whichever window is there first goes out (buffer_unordered). *)
EmitReady ==
    \E k \in ready : Send(k) /\ ready' = ready \ {k}

(* buffered: the windows go out in the order of the plan. *)
Emit ==
    Send(taken + 1) /\ ready' = ready \ {taken + 1}

(* Fault: a window that fails is passed over. *)
AbortSkips ==
    /\ stage = "body" /\ remaining > 0 /\ taken < Len(plan) /\ taken + 1 \notin ready
    /\ remaining' = Minus(remaining, plan[taken + 1].len)
    /\ taken' = taken + 1
    /\ UNCHANGED <<stage, header, declared, size, start, end, attempt, skip, plan, ready, sent>>

(* A window that fails ends the body where it is. *)
Abort ==
    /\ stage = "body" /\ remaining > 0 /\ taken < Len(plan) /\ taken + 1 \notin ready
    /\ stage' = "broken"
    /\ UNCHANGED <<header, declared, size, start, end, attempt, skip, remaining, plan, taken, ready, sent>>

(* Everything was sent, or the plan has no more windows: the reference is  *)
(* kept as verified.                                                       *)
Finish ==
    /\ stage = "body" /\ (remaining = 0 \/ taken = Len(plan))
    /\ stage' = "done"
    /\ UNCHANGED <<header, declared, size, start, end, attempt, skip, remaining, plan, taken, ready, sent>>

(* The client hangs up. *)
Close ==
    /\ stage = "body"
    /\ stage' = "closed"
    /\ UNCHANGED <<header, declared, size, start, end, attempt, skip, remaining, plan, taken, ready, sent>>

Next ==
    \/ Accept \/ Unsatisfiable
    \/ HeadFails \/ Disguised \/ Commit
    \/ (\E k \in 1 .. Len(plan) : Ready(k))
    \/ Emit \/ Abort \/ Finish \/ Close

Spec == Init /\ [][Next]_vars

-----------------------------------------------------------------------------
(* Correctness properties *)

Windowed(w) == w.at \in Nat /\ w.len \in Nat

(* Every variable has its type; no more is sent than was asked for.        *)
TypeOK ==
    /\ stage \in Stages /\ header \in Headers
    /\ declared \in Sizes /\ size \in Sizes
    /\ start \in Nat /\ end \in Nat /\ attempt \in 0 .. MaxAttempts
    /\ skip \in Nat /\ remaining \in Nat
    /\ \A k \in DOMAIN plan : Windowed(plan[k])
    /\ taken \in 0 .. Len(plan) /\ ready \subseteq taken + 1 .. Least(taken + Depth, Len(plan))
    /\ \A c \in sent : c.off \in Nat /\ Windowed(c)

(* The body is one stretch of the file: the byte at offset n of the body   *)
(* is the byte start + n of the file, whatever part sizes the fetches had, *)
(* in whatever order they ended, how much of the first window is thrown    *)
(* away, and also when a new reference has changed the size of the file    *)
(* between the Range and the first byte.                                   *)
BytesInOrder ==
    \A c \in sent : c.at = start + c.off

(* A body that ends by itself has sent Content-Length bytes, if the file   *)
(* has them: neither the bytes before start nor those of a part that runs  *)
(* past the end of the file are missing from it ("up to 1 MB SHORT of the  *)
(* Content-Length").                                                       *)
WholeBody ==
    stage = "done" /\ size > end => remaining = 0

(* What a Range asks for, byte by byte: from its first byte on, up to its  *)
(* last, or the last so many; and never a byte the file has not.           *)
Asked(h, n) ==
    {b \in 0 .. n - 1 :
        /\ h # NoRange => h[1] # Junk
        /\ h # NoRange /\ h[1] \in Nat => b >= h[1] /\ (h[2] \in Nat => b <= h[2])
        /\ h # NoRange /\ h[1] = Blank => h[2] \in Nat /\ b >= n - h[2]}

(* start and end are exactly what the client asked for of the file as it   *)
(* was then, and 416 is for the Ranges that ask for nothing.               *)
RangeIsWhatWasAsked ==
    stage # "asked" =>
        \/ attempt = 0 /\ stage = "refused" /\ Asked(header, declared) = {}
        \/ start .. end = Asked(header, declared) /\ start <= end

(* Every window of the plan is inside the file and inside one block of     *)
(* 1 MB, and starts where a part can: without that a fetch would begin     *)
(* before the window, or run into the parts of the next.  And it is two    *)
(* parts at most, those of 1 MB at the largest part size: its place in the *)
(* file never makes it a long row of small ones ("one 1 MB window costs    *)
(* 256 parts instead of 2").                                               *)
WindowsAreLegal ==
    \A k \in DOMAIN plan :
        LET w == plan[k] IN
        /\ w.len > 0 /\ w.at + w.len <= size
        /\ w.at \div Mb = (w.at + w.len - 1) \div Mb
        /\ w.at % MinChunk = 0
        /\ PartsOf(w) <= Mb \div MaxChunk

(* What the client sees of the download: how far the response is, and the  *)
(* bytes it has, each with its place in the body.                          *)
Phase ==
    IF stage = "prime" THEN "promised"
    ELSE IF stage = "body" THEN "open"
    ELSE IF stage = "done" THEN "ended"
    ELSE IF stage = "asked" THEN "asked"
    ELSE "failed"

BytesOf(c) == {<<c.off + i, c.at + i>> : i \in 0 .. c.len - 1}

Received == UNION {BytesOf(c) : c \in sent}

(* A client receives the range it was promised from its first byte on, with *)
(* no byte left out, repeated or out of place, and a response that ends by  *)
(* itself is whole unless the file turned out to be shorter, however its    *)
(* windows are cut, fetched and joined (download.rs:1943-2088, the body     *)
(* task: buffered(depth), skip and remaining).                              *)
Client == INSTANCE Delivery WITH
    Lengths <- Sizes,
    phase <- Phase,
    length <- size,
    first <- start,
    last <- end,
    body <- Received

DeliversTheRange == Client!Spec

====
