---------------------------- MODULE Sources_proofs ----------------------------
(***************************************************************************)
(* Theorems about Sources, for any jobs, sources, slots and intervals.     *)
(*                                                                         *)
(* The slots taken of a source are counted by the requests it has to       *)
(* answer.  The tokens of a source, used, handed out and next, make up no  *)
(* more than the time there was (TokensSpaced), and those not used up are  *)
(* Every apart and before the next (Apart), however they are given back.   *)
(* What a job knows of its walk is kept page by page (Walked): at a mirror *)
(* it has found all that is served before its page, and nothing that is    *)
(* neither served nor in the cache; and at every source it has passed over *)
(* a request failed or there was nothing.                                  *)
(***************************************************************************)
EXTENDS Sources, FiniteSetTheorems, TLAPS

LEMMA ConstantsTyped ==
    /\ Len(Order) \in Nat \ {0} /\ DOMAIN Order = 1 .. Len(Order)
    /\ \A i \in 1 .. Len(Order) : Order[i] \in Origin
    /\ \A s \in Origin : PageCount(s) \in Nat \ {0} /\ PageCount(s) <= MaxPages + SnapPages
    /\ MaxPages \in Nat \ {0} /\ SnapPages \in Nat \ {0} /\ MaxConcurrent \in Nat \ {0}
    /\ Every \in Nat /\ JobTimeout \in Nat /\ MaxTime \in Nat
  <1>1. Len(Order) \in Nat /\ DOMAIN Order = 1 .. Len(Order) /\ Order # <<>>
    BY SourcesAssumption DEF SourcesAssumption
  <1>2. Len(Order) # 0
    BY <1>1, SourcesAssumption DEF SourcesAssumption
  <1>3. \A i \in 1 .. Len(Order) : Order[i] \in Origin
    BY <1>1 DEF Origin
  <1> QED
    BY <1>1, <1>2, <1>3, SourcesAssumption DEF SourcesAssumption, PageCount

LEMMA ImageIsPage ==
    /\ \A s \in Origin, p \in Nat : <<s, p>> \in Image <=> p < PageCount(s)
    /\ \A u \in Image : u[1] \in Origin /\ u[2] \in 0 .. PageCount(u[1]) - 1 /\ u = <<u[1], u[2]>>
  BY ConstantsTyped DEF Image

-----------------------------------------------------------------------------
(* Types *)

\* TypeOK in two parts; the range of held follows from SlotsMatchRequests.
SharedTyped ==
    /\ now \in 0 .. MaxTime
    /\ up \in Upstreams /\ elsewhere \in Stored
    /\ cached \subseteq Image
    /\ free \in [Origin -> Nat]
    /\ held \in [Origin -> Int]
    /\ due \in [Job -> Nat]
    /\ calls \in [Origin -> Nat]

JobsTyped ==
    /\ step \in [Job -> {"off", "page", "wait", "slot", "ask", "body", "done"}]
    /\ at \in [Job -> 1 .. Len(Order) + 1]
    /\ page \in [Job -> Nat]
    /\ ask \in [Job -> {"head", "range", "get"}]
    /\ miss \in [Job -> 0 .. 1]
    /\ pages \in [Job -> SUBSET Nat]
    /\ \A j \in Job : Running(j) => at[j] <= Len(Order) /\ Current(j) \in Image
    /\ snap \in [Job -> BOOLEAN]
    /\ deadline \in [Job -> Nat]
    /\ failed \in [Job -> BOOLEAN]

Typed == SharedTyped /\ JobsTyped

\* The source of a job that runs, and the page it is at.
LEMMA RunningAt ==
    ASSUME JobsTyped, NEW j \in Job, Running(j)
    PROVE  /\ at[j] \in 1 .. Len(Order) /\ Source(j) \in Origin /\ Source(j) = Order[at[j]]
           /\ page[j] \in Nat /\ page[j] < PageCount(Source(j)) /\ Current(j) = <<Source(j), page[j]>>
  <1>1. at[j] \in 1 .. Len(Order) /\ page[j] \in Nat
    BY ConstantsTyped DEF JobsTyped
  <1>2. Source(j) \in Origin
    BY <1>1, ConstantsTyped DEF Source
  <1>3. <<Source(j), page[j]>> \in Image
    BY DEF JobsTyped, Current
  <1> QED
    BY <1>1, <1>2, <1>3, ImageIsPage DEF Source, Current

\* Only whole images get into the cache from here.
CachedServed == cached \subseteq Served

\* How an attempt at a page may end.
Ended(j, outcome) ==
    /\ outcome \in {"ok", "missing", "error"}
    /\ outcome = "ok" => Current(j) \in Served \cup elsewhere
    /\ outcome = "missing" => Current(j) \notin Served

\* A step of a job that does not leave its page.
SamePage(j) ==
    /\ \E s \in {"page", "wait", "slot", "ask", "body"} : Goto(j, s)
    /\ ask' \in [Job -> {"head", "range", "get"}]
    /\ UNCHANGED <<at, page, miss, pages, local, failed>>

\* A source without a snapshot is passed over.
PassesOver(j) ==
    /\ Source(j) \notin Mirrors /\ ~snap[j]
    /\ SourceFails(j) /\ UNCHANGED <<local, failed>>

\* What the many steps of a job come to, as far as its walk is concerned.
LEMMA StepKinds ==
    ASSUME Typed, CachedServed, NEW j \in Job, Proceed(j) \/ Advance(j)
    PROVE  /\ Running(j) /\ up' = up /\ elsewhere' = elsewhere
           /\ \/ PassesOver(j)
              \/ \E o \in {"ok", "missing", "error"} : Ended(j, o) /\ PageEnds(j, o)
              \/ SamePage(j)
  <1> USE DEF Running, Asking
  <1>0. /\ ask \in [Job -> {"head", "range", "get"}]
        /\ Running(j) => (Current(j) \in Served <=> up[Current(j)] = "image")
    BY DEF Typed, JobsTyped, Served
  <1>1. CASE NoSnapshot(j)
    BY <1>1 DEF NoSnapshot, clock, PassesOver
  <1>2. CASE Reserve(j) \/ WaitEnds(j) \/ TakeSlot(j) \/ GetAnswers(j)
    BY <1>0, <1>2 DEF Reserve, WaitEnds, TakeSlot, GetAnswers, clock, walk, SamePage
  <1>3. CASE ReserveFails(j) \/ WaitCancelled(j) \/ SlotCancelled(j) \/ AskFails(j) \/ BodyFails(j)
    BY <1>3 DEF ReserveFails, WaitCancelled, SlotCancelled, AskFails, BodyFails, PageEnds, clock, Ended
  <1>4. CASE Hit(j)
    BY <1>4 DEF Hit, PageEnds, clock, Ended, CachedServed, Served
  <1>5. CASE HeadUnsupported(j)
    BY <1>0, <1>5 DEF HeadUnsupported, AskNext, clock, SamePage
  <1>6. CASE ProbeAnswers(j)
    <2>1. CASE up[Current(j)] = "absent"
      BY <1>0, <1>6, <2>1 DEF ProbeAnswers, PageEnds, clock, Ended
    <2>2. CASE up[Current(j)] # "absent"
      BY <1>0, <1>6, <2>2 DEF ProbeAnswers, AskNext, clock, SamePage
    <2> QED
      BY <2>1, <2>2
  <1>7. CASE GetMisses(j)
    BY <1>0, <1>7 DEF GetMisses, PageEnds, clock, Ended
  <1>8. CASE BodyWhole(j)
    BY <1>0, <1>8 DEF BodyWhole, PageEnds, clock, Ended
  <1>9. CASE BodyRefused(j)
    BY <1>0, <1>9 DEF BodyRefused, PageEnds, clock, Ended
  <1> QED
    BY <1>1, <1>2, <1>3, <1>4, <1>5, <1>6, <1>7, <1>8, <1>9 DEF Proceed, Advance, AskTimesOut, BodyTimesOut

LEMMA FailsTyped ==
    ASSUME JobsTyped, NEW j \in Job, Running(j), SourceFails(j),
           UNCHANGED local, failed' \in [Job -> BOOLEAN]
    PROVE  JobsTyped'
  <1>1. at[j] \in 1 .. Len(Order)
    BY RunningAt
  <1>2. at' \in [Job -> 1 .. Len(Order) + 1] /\ at'[j] = at[j] + 1
    BY <1>1, ConstantsTyped DEF JobsTyped, SourceFails
  <1>3. /\ step' \in [Job -> {"off", "page", "wait", "slot", "ask", "body", "done"}]
        /\ page' \in [Job -> Nat] /\ page'[j] = 0
        /\ ask' \in [Job -> {"head", "range", "get"}]
        /\ miss' \in [Job -> 0 .. 1]
        /\ pages' \in [Job -> SUBSET Nat]
    BY DEF JobsTyped, SourceFails, Goto, FirstAsk
  <1>4. ASSUME Running(j)' PROVE at'[j] <= Len(Order) /\ Current(j)' \in Image
    <2>1. at'[j] \in 1 .. Len(Order)
      BY <1>1, <1>2, <1>4, ConstantsTyped DEF SourceFails, Goto, JobsTyped, Running
    <2>2. <<Order[at'[j]], 0>> \in Image
      BY <2>1, ConstantsTyped, ImageIsPage
    <2> QED
      BY <1>3, <2>1, <2>2 DEF Current, Source
  <1>5. ASSUME NEW i \in Job, i # j
        PROVE step'[i] = step[i] /\ at'[i] = at[i] /\ page'[i] = page[i]
    BY <1>5 DEF JobsTyped, SourceFails, Goto
  <1>6. \A i \in Job : Running(i)' => at'[i] <= Len(Order) /\ Current(i)' \in Image
    BY <1>4, <1>5 DEF JobsTyped, Running, Current, Source
  <1> QED
    BY <1>2, <1>3, <1>6 DEF JobsTyped, local

\* How the search at a source goes on after an attempt at a page.
Found(j, outcome)  == IF outcome = "ok" THEN pages[j] \cup {page[j]} ELSE pages[j]
Misses(j, outcome) == IF outcome = "ok" THEN 0 ELSE miss[j] + 1

LEMMA PageEndsKinds ==
    ASSUME JobsTyped, NEW j \in Job, Running(j), NEW o \in {"ok", "missing", "error"}, PageEnds(j, o)
    PROVE  /\ failed' = [failed EXCEPT ![j] = @ \/ o = "error"] /\ UNCHANGED local
           /\ \/ SourceFails(j) /\ Source(j) \in Mirrors /\ (o = "error" \/ Found(j, o) = {})
              \/ SourceFails(j) /\ Source(j) \notin Mirrors /\ Found(j, o) = {}
                    /\ page[j] + 1 = PageCount(Source(j))
              \/ /\ Found(j, o) # {} /\ Goto(j, "done")
                 /\ pages' = [pages EXCEPT ![j] = Found(j, o)]
                 /\ miss' = [miss EXCEPT ![j] = 0]
                 /\ UNCHANGED <<at, page, ask>>
                 /\ \/ page[j] + 1 = PageCount(Source(j))
                    \/ Source(j) \in Mirrors /\ Misses(j, o) = 2
                 /\ Source(j) \in Mirrors => o # "error"
              \/ /\ NextPage(j, Found(j, o), IF Source(j) \in Mirrors THEN Misses(j, o) ELSE 0)
                 /\ page[j] + 1 < PageCount(Source(j))
                 /\ Source(j) \in Mirrors => o # "error" /\ Found(j, o) # {} /\ Misses(j, o) # 2
  <1>1. page[j] \in Nat /\ page[j] < PageCount(Source(j)) /\ Source(j) \in Origin
    BY RunningAt
  <1>2. CASE Source(j) \in Mirrors
    <2>1. PageCount(Source(j)) = MaxPages
      BY <1>2 DEF PageCount
    <2>2. IF o = "error" \/ Found(j, o) = {} THEN SourceFails(j)
          ELSE IF page[j] + 1 = MaxPages \/ Misses(j, o) = 2 THEN SourceEnds(j, Found(j, o))
          ELSE NextPage(j, Found(j, o), Misses(j, o))
      BY <1>2 DEF PageEnds, MirrorPage, Found, Misses
    <2>3. failed' = [failed EXCEPT ![j] = @ \/ o = "error"] /\ UNCHANGED local
      BY DEF PageEnds
    <2>4. page[j] + 1 # MaxPages => page[j] + 1 < PageCount(Source(j))
      BY <1>1, <2>1, ConstantsTyped
    <2> QED
      BY <1>2, <2>1, <2>2, <2>3, <2>4 DEF SourceEnds
  <1>3. CASE Source(j) \notin Mirrors
    <2>1. PageCount(Source(j)) = SnapPages
      BY <1>3 DEF PageCount
    <2> QED
      BY <1>1, <1>3, <2>1, ConstantsTyped DEF PageEnds, SnapshotPage, SourceEnds, Found, Misses, clock
  <1> QED
    BY <1>2, <1>3

LEMMA PageEndsTyped ==
    ASSUME JobsTyped, NEW j \in Job, Running(j), NEW o \in {"ok", "missing", "error"}, PageEnds(j, o)
    PROVE  JobsTyped'
  <1>1. failed' \in [Job -> BOOLEAN] /\ UNCHANGED local
    BY PageEndsKinds DEF JobsTyped
  <1>2. Found(j, o) \in SUBSET Nat /\ Misses(j, o) \in 0 .. 2
    <2>1. page[j] \in Nat /\ pages[j] \in SUBSET Nat /\ miss[j] \in 0 .. 1
      BY DEF JobsTyped
    <2> QED
      BY <2>1 DEF Found, Misses
  <1>3. at[j] \in 1 .. Len(Order) /\ Source(j) \in Origin /\ page[j] \in Nat
    BY RunningAt
  <1>4. CASE SourceFails(j)
    BY <1>1, <1>4, FailsTyped
  <1>5. CASE /\ Goto(j, "done")
             /\ pages' = [pages EXCEPT ![j] = Found(j, o)]
             /\ miss' = [miss EXCEPT ![j] = 0]
             /\ UNCHANGED <<at, page, ask>>
    <2>1. /\ step' \in [Job -> {"off", "page", "wait", "slot", "ask", "body", "done"}]
          /\ pages' \in [Job -> SUBSET Nat] /\ miss' \in [Job -> 0 .. 1]
      BY <1>2, <1>5 DEF JobsTyped, Goto
    <2>2. \A i \in Job : Running(i)' => Running(i) /\ Current(i)' = Current(i)
      BY <1>5 DEF JobsTyped, Goto, Running, Current, Source
    <2> QED
      BY <1>1, <1>5, <2>1, <2>2 DEF JobsTyped, local
  <1>6. CASE /\ NextPage(j, Found(j, o), IF Source(j) \in Mirrors THEN Misses(j, o) ELSE 0)
             /\ page[j] + 1 < PageCount(Source(j))
             /\ Source(j) \in Mirrors => Misses(j, o) # 2
    <2>1. /\ step' \in [Job -> {"off", "page", "wait", "slot", "ask", "body", "done"}]
          /\ page' \in [Job -> Nat] /\ page'[j] = page[j] + 1
          /\ ask' \in [Job -> {"head", "range", "get"}]
          /\ pages' \in [Job -> SUBSET Nat]
      BY <1>2, <1>6 DEF JobsTyped, NextPage, Goto, FirstAsk
    <2>2. miss' \in [Job -> 0 .. 1]
      BY <1>2, <1>6 DEF JobsTyped, NextPage
    <2>3. <<Source(j), page[j] + 1>> \in Image
      BY <1>3, <1>6, ImageIsPage
    <2>4. \A i \in Job : Running(i)' => at[i] <= Len(Order) /\ Current(i)' \in Image
      <3>1. Current(j)' \in Image
        BY <1>6, <2>1, <2>3 DEF NextPage, Current, Source
      <3>2. ASSUME NEW i \in Job, i # j PROVE step'[i] = step[i] /\ page'[i] = page[i] /\ at' = at
        BY <1>6, <3>2 DEF NextPage, Goto, JobsTyped
      <3> QED
        BY <1>3, <3>1, <3>2 DEF JobsTyped, Running, Current, Source
    <2> QED
      BY <1>1, <1>6, <2>1, <2>2, <2>4 DEF JobsTyped, NextPage, local
  <1>7. \/ SourceFails(j)
        \/ /\ Goto(j, "done")
           /\ pages' = [pages EXCEPT ![j] = Found(j, o)]
           /\ miss' = [miss EXCEPT ![j] = 0]
           /\ UNCHANGED <<at, page, ask>>
        \/ /\ NextPage(j, Found(j, o), IF Source(j) \in Mirrors THEN Misses(j, o) ELSE 0)
           /\ page[j] + 1 < PageCount(Source(j))
           /\ Source(j) \in Mirrors => Misses(j, o) # 2
    BY PageEndsKinds
  <1> QED
    BY <1>4, <1>5, <1>6, <1>7

LEMMA SamePageTyped ==
    ASSUME JobsTyped, NEW j \in Job, Running(j), SamePage(j)
    PROVE  JobsTyped'
  <1>1. PICK s \in {"page", "wait", "slot", "ask", "body"} : Goto(j, s)
    BY DEF SamePage
  <1>2. step' \in [Job -> {"off", "page", "wait", "slot", "ask", "body", "done"}]
    BY <1>1 DEF JobsTyped, Goto
  <1>3. \A i \in Job : Running(i)' => Running(i) /\ Current(i)' = Current(i)
    BY <1>1 DEF JobsTyped, SamePage, Goto, Running, Current, Source
  <1> QED
    BY <1>2, <1>3 DEF JobsTyped, SamePage, local

LEMMA SharedStep ==
    ASSUME Typed, CachedServed, [Next]_vars
    PROVE  SharedTyped'
  <1> USE DEF clock
  <1>1. ASSUME NEW j \in Job, Proceed(j) \/ Advance(j) PROVE SharedTyped'
    <2>0. /\ now \in Nat /\ due[j] \in Nat /\ deadline[j] \in Nat /\ Every \in Nat
          /\ SharedTyped
      BY ConstantsTyped DEF Typed, SharedTyped, JobsTyped
    <2>1. Running(j) /\ UNCHANGED <<up, elsewhere>>
      BY <1>1, StepKinds
    <2>2. Source(j) \in Origin /\ Current(j) \in Image /\ free[Source(j)] \in Nat
      BY <2>0, <2>1, RunningAt DEF Typed, JobsTyped, SharedTyped
    <2>3. Later(now, free[Source(j)]) \in Nat
      BY <2>0, <2>2 DEF Later
    <2>4. UNCHANGED now
      BY <1>1 DEF Proceed, Advance, NoSnapshot, Reserve, ReserveFails, WaitEnds, WaitCancelled,
         SlotCancelled, AskTimesOut, BodyTimesOut, Hit, TakeSlot, AskFails, HeadUnsupported,
         ProbeAnswers, GetMisses, GetAnswers, BodyWhole, BodyRefused, BodyFails, PageEnds, AskNext
    <2>5. CASE Reserve(j)
      <3>1. due' \in [Job -> Nat] /\ free' \in [Origin -> Nat]
        BY <2>0, <2>2, <2>3, <2>5 DEF Reserve, SharedTyped
      <3> QED
        BY <2>0, <2>1, <2>4, <2>5, <3>1 DEF Reserve, SharedTyped
    <2>6. CASE WaitCancelled(j)
      <3>1. free' \in [Origin -> Nat]
        BY <2>0, <2>2, <2>6 DEF WaitCancelled, SharedTyped
      <3> QED
        BY <2>0, <2>1, <2>4, <2>6, <3>1 DEF WaitCancelled, SharedTyped
    <2>7. CASE TakeSlot(j)
      <3>1. held' \in [Origin -> Int] /\ calls' \in [Origin -> Nat]
        BY <2>0, <2>2, <2>7 DEF TakeSlot, SharedTyped
      <3> QED
        BY <2>0, <2>1, <2>4, <2>7, <3>1 DEF TakeSlot, SharedTyped
    <2>8. CASE AskFails(j) \/ HeadUnsupported(j) \/ ProbeAnswers(j) \/ GetMisses(j) \/ GetAnswers(j)
      <3>1. held' \in [Origin -> Int]
        BY <2>0, <2>2, <2>8 DEF AskFails, HeadUnsupported, ProbeAnswers, GetMisses, GetAnswers, Release, SharedTyped
      <3> QED
        BY <2>0, <2>1, <2>4, <2>8, <3>1 DEF AskFails, HeadUnsupported, ProbeAnswers, GetMisses, GetAnswers, SharedTyped
    <2>9. CASE NoSnapshot(j) \/ ReserveFails(j) \/ WaitEnds(j) \/ SlotCancelled(j) \/ Hit(j)
                 \/ BodyRefused(j) \/ BodyFails(j)
      BY <2>0, <2>1, <2>4, <2>9 DEF NoSnapshot, ReserveFails, WaitEnds, SlotCancelled, Hit,
         BodyRefused, BodyFails, SharedTyped
    <2>10. CASE BodyWhole(j)
      BY <2>0, <2>1, <2>2, <2>4, <2>10 DEF BodyWhole, SharedTyped
    <2> QED
      BY <1>1, <2>5, <2>6, <2>7, <2>8, <2>9, <2>10 DEF Proceed, Advance, AskTimesOut, BodyTimesOut
  <1>2. ASSUME NEW j \in Job, Start(j) PROVE SharedTyped'
    BY <1>2 DEF Typed, SharedTyped, Start
  <1>3. CASE Tick
    BY <1>3, ConstantsTyped DEF Typed, SharedTyped, Tick
  <1>4. CASE UNCHANGED vars
    BY <1>4 DEF Typed, SharedTyped, vars
  <1> QED
    BY <1>1, <1>2, <1>3, <1>4 DEF Next

\* A job that has not started is at the first page of the first source.
Fresh == \A j \in Job : step[j] = "off" => at[j] = 1 /\ page[j] = 0 /\ pages[j] = {} /\ miss[j] = 0

LEMMA StepTyped == Typed /\ Fresh /\ CachedServed /\ [Next]_vars => Typed'
  <1> SUFFICES ASSUME Typed, Fresh, CachedServed, [Next]_vars PROVE JobsTyped'
    BY SharedStep DEF Typed
  <1>1. ASSUME NEW j \in Job, Proceed(j) \/ Advance(j) PROVE JobsTyped'
    <2>1. JobsTyped /\ Running(j)
      BY <1>1, StepKinds DEF Typed
    <2>2. CASE PassesOver(j)
      BY <2>1, <2>2, FailsTyped DEF PassesOver, JobsTyped
    <2>3. ASSUME NEW o \in {"ok", "missing", "error"}, PageEnds(j, o) PROVE JobsTyped'
      BY <2>1, <2>3, PageEndsTyped
    <2>4. CASE SamePage(j)
      BY <2>1, <2>4, SamePageTyped
    <2> QED
      BY <1>1, <2>2, <2>3, <2>4, StepKinds
  <1>2. ASSUME NEW j \in Job, Start(j) PROVE JobsTyped'
    <2>1. step' \in [Job -> {"off", "page", "wait", "slot", "ask", "body", "done"}]
      BY <1>2 DEF Typed, JobsTyped, Start, Goto
    <2>2. snap' \in [Job -> BOOLEAN]
      BY <1>2 DEF Typed, JobsTyped, Start
    <2>3. deadline' \in [Job -> Nat]
      <3>1. now + JobTimeout \in Nat
        BY ConstantsTyped DEF Typed, SharedTyped
      <3> QED
        BY <1>2, <3>1 DEF Typed, JobsTyped, Start
    <2>4. at[j] = 1 /\ page[j] = 0 /\ <<Order[1], 0>> \in Image /\ 1 <= Len(Order)
      BY <1>2, ConstantsTyped, ImageIsPage DEF Start, Fresh
    <2>5. \A i \in Job : i # j => step'[i] = step[i]
      BY <1>2 DEF Typed, JobsTyped, Start, Goto
    <2>6. \A i \in Job : Running(i)' => at[i] <= Len(Order) /\ Current(i) \in Image
      BY <2>4, <2>5 DEF Typed, JobsTyped, Running, Current, Source
    <2> QED
      BY <1>2, <2>1, <2>2, <2>3, <2>6 DEF Typed, JobsTyped, Start, walk, Current, Source
  <1>3. CASE Tick
    BY <1>3 DEF Typed, JobsTyped, Tick, walk, local, Running, Current, Source
  <1>4. CASE UNCHANGED vars
    BY <1>4 DEF Typed, JobsTyped, vars, walk, local, Running, Current, Source
  <1> QED
    BY <1>1, <1>2, <1>3, <1>4 DEF Next

\* What a step of a job leaves alone of the others.
LEMMA OthersKept ==
    ASSUME Typed, CachedServed, NEW j \in Job, Start(j) \/ Proceed(j) \/ Advance(j), NEW i \in Job, i # j
    PROVE  /\ step'[i] = step[i] /\ at'[i] = at[i] /\ page'[i] = page[i]
           /\ miss'[i] = miss[i] /\ pages'[i] = pages[i]
           /\ snap'[i] = snap[i] /\ failed'[i] = failed[i]
  <1> USE DEF Typed, JobsTyped, Goto, local, walk
  <1>1. CASE Start(j)
    BY <1>1 DEF Start
  <1>2. CASE PassesOver(j)
    BY <1>2 DEF PassesOver, SourceFails
  <1>3. ASSUME NEW o \in {"ok", "missing", "error"}, Running(j), PageEnds(j, o)
        PROVE  /\ step'[i] = step[i] /\ at'[i] = at[i] /\ page'[i] = page[i]
               /\ miss'[i] = miss[i] /\ pages'[i] = pages[i]
               /\ snap'[i] = snap[i] /\ failed'[i] = failed[i]
    <2>1. snap'[i] = snap[i] /\ failed'[i] = failed[i]
      BY <1>3 DEF PageEnds
    <2>2. CASE SourceFails(j)
      BY <2>1, <2>2 DEF SourceFails
    <2>3. CASE /\ Goto(j, "done")
               /\ pages' = [pages EXCEPT ![j] = Found(j, o)]
               /\ miss' = [miss EXCEPT ![j] = 0]
               /\ UNCHANGED <<at, page, ask>>
      BY <2>1, <2>3
    <2>4. CASE NextPage(j, Found(j, o), IF Source(j) \in Mirrors THEN Misses(j, o) ELSE 0)
      BY <2>1, <2>4 DEF NextPage
    <2> QED
      BY <1>3, <2>2, <2>3, <2>4, PageEndsKinds
  <1>4. CASE SamePage(j)
    BY <1>4 DEF SamePage
  <1> QED
    BY <1>1, <1>2, <1>3, <1>4, StepKinds

LEMMA StepFresh == Typed /\ CachedServed /\ Fresh /\ [Next]_vars => Fresh'
  <1> SUFFICES ASSUME Typed, CachedServed, Fresh, [Next]_vars PROVE Fresh'
    OBVIOUS
  <1>1. ASSUME NEW j \in Job, Start(j) \/ Proceed(j) \/ Advance(j) PROVE Fresh'
    <2>1. step'[j] # "off"
      <3>1. CASE Start(j)
        BY <3>1 DEF Start, Goto, Typed, JobsTyped
      <3>2. CASE PassesOver(j)
        BY <3>2 DEF PassesOver, SourceFails, Goto, Typed, JobsTyped
      <3>3. ASSUME NEW o \in {"ok", "missing", "error"}, Running(j), PageEnds(j, o)
            PROVE step'[j] # "off"
        <4>1. Goto(j, "done") \/ Goto(j, "page")
          BY <3>3, PageEndsKinds DEF SourceFails, NextPage, Typed
        <4> QED
          BY <4>1 DEF Goto, Typed, JobsTyped
      <3>4. CASE SamePage(j)
        BY <3>4 DEF SamePage, Goto, Typed, JobsTyped
      <3> QED
        BY <1>1, <3>1, <3>2, <3>3, <3>4, StepKinds
    <2> QED
      BY <1>1, <2>1, OthersKept DEF Fresh
  <1>2. CASE Tick
    BY <1>2 DEF Tick, Fresh, walk
  <1>3. CASE UNCHANGED vars
    BY <1>3 DEF vars, Fresh, walk
  <1> QED
    BY <1>1, <1>2, <1>3 DEF Next

LEMMA StepServed == Typed /\ CachedServed /\ [Next]_vars => CachedServed'
  <1> SUFFICES ASSUME Typed, CachedServed, [Next]_vars PROVE CachedServed'
    OBVIOUS
  <1>1. ASSUME NEW j \in Job, Proceed(j) \/ Advance(j) PROVE CachedServed'
    <2>1. UNCHANGED up
      BY <1>1, StepKinds
    <2>2. cached' = cached \/ (step[j] = "body" /\ up[Current(j)] = "image" /\ cached' = cached \cup {Current(j)})
      BY <1>1 DEF Proceed, Advance, NoSnapshot, Reserve, ReserveFails, WaitEnds, WaitCancelled,
         SlotCancelled, AskTimesOut, BodyTimesOut, Hit, TakeSlot, AskFails, HeadUnsupported,
         ProbeAnswers, GetMisses, GetAnswers, BodyWhole, BodyRefused, BodyFails
    <2> QED
      BY <2>1, <2>2 DEF CachedServed, Served, Typed, JobsTyped, Running
  <1>2. ASSUME NEW j \in Job, Start(j) PROVE CachedServed'
    BY <1>2 DEF Start, CachedServed, Served, clock
  <1>3. CASE Tick
    BY <1>3 DEF Tick, CachedServed, Served
  <1>4. CASE UNCHANGED vars
    BY <1>4 DEF vars, CachedServed, Served, clock
  <1> QED
    BY <1>1, <1>2, <1>3, <1>4 DEF Next

-----------------------------------------------------------------------------
(* Slots *)

\* The requests a source has to answer.
Asked(s) == {j \in Job : step[j] = "ask" /\ Source(j) = s}

Slotted == (\A s \in Origin : held[s] \in 0 .. MaxConcurrent) /\ SlotsMatchRequests

LEMMA AskedFinite == \A s \in Origin : IsFiniteSet(Asked(s)) /\ Cardinality(Asked(s)) \in Nat
  BY FS_Subset, FS_CardinalityType, SourcesAssumption DEF Asked, SourcesAssumption

LEMMA StepSlotted == Typed /\ CachedServed /\ Slotted /\ [Next]_vars => Slotted'
  <1> SUFFICES ASSUME Typed, CachedServed, Slotted, [Next]_vars PROVE Slotted'
    OBVIOUS
  <1>0. \A s \in Origin : held[s] = Cardinality(Asked(s))
    BY DEF Slotted, SlotsMatchRequests, Asked
  <1>1. ASSUME \A s \in Origin : held'[s] \in 0 .. MaxConcurrent /\ held'[s] = Cardinality(Asked(s)')
        PROVE Slotted'
    BY <1>1 DEF Slotted, SlotsMatchRequests, Asked
  <1>2. ASSUME UNCHANGED held, \A s \in Origin : Asked(s)' = Asked(s) PROVE Slotted'
    BY <1>0, <1>1, <1>2 DEF Slotted
  <1>3. ASSUME NEW j \in Job, Start(j) \/ Proceed(j) \/ Advance(j) PROVE Slotted'
    <2>1. \A i \in Job : i # j => step'[i] = step[i] /\ Source(i)' = Source(i)
      BY <1>3, OthersKept DEF Source
    <2>2. CASE TakeSlot(j)
      <3>1. step[j] = "slot" /\ step'[j] = "ask" /\ at' = at
        BY <2>2 DEF TakeSlot, Goto, walk, Typed, JobsTyped
      <3>2. Source(j) \in Origin
        BY <3>1, RunningAt DEF Typed, Running
      <3>3. held' = [held EXCEPT ![Source(j)] = @ + 1] /\ held[Source(j)] < MaxConcurrent
        BY <2>2 DEF TakeSlot
      <3>4. ASSUME NEW s \in Origin
            PROVE held'[s] \in 0 .. MaxConcurrent /\ held'[s] = Cardinality(Asked(s)')
        <4>1. CASE s = Source(j)
          <5>1. j \notin Asked(s) /\ Asked(s)' = Asked(s) \cup {j}
            BY <2>1, <3>1, <4>1 DEF Asked, Source
          <5>2. Cardinality(Asked(s)') = Cardinality(Asked(s)) + 1
            BY <5>1, FS_AddElement, AskedFinite
          <5>3. held'[s] = held[s] + 1 /\ held[s] \in 0 .. MaxConcurrent /\ held[s] < MaxConcurrent
            BY <3>2, <3>3, <4>1 DEF Typed, SharedTyped, Slotted
          <5> QED
            BY <1>0, <5>2, <5>3, ConstantsTyped
        <4>2. CASE s # Source(j)
          <5>1. Asked(s)' = Asked(s)
            BY <2>1, <3>1, <4>2 DEF Asked, Source
          <5>2. held'[s] = held[s]
            BY <3>3, <4>2 DEF Typed, SharedTyped
          <5> QED
            BY <1>0, <5>1, <5>2 DEF Slotted
        <4> QED
          BY <4>1, <4>2
      <3> QED
        BY <1>1, <3>4
    <2>3. CASE step[j] = "ask"
      <3>1. Proceed(j) \/ Advance(j)
        BY <1>3, <2>3 DEF Start
      <3>2. Source(j) \in Origin
        BY <2>3, RunningAt DEF Typed, Running
      <3>3. step'[j] # "ask" /\ held' = [held EXCEPT ![Source(j)] = @ - 1]
        <4>1. AskFails(j) \/ HeadUnsupported(j) \/ ProbeAnswers(j) \/ GetMisses(j) \/ GetAnswers(j)
          BY <2>3, <3>1 DEF Proceed, Advance, NoSnapshot, Reserve, ReserveFails, WaitEnds,
             WaitCancelled, SlotCancelled, AskTimesOut, BodyTimesOut, Hit, TakeSlot,
             BodyWhole, BodyRefused, BodyFails, Asking
        <4>2. held' = [held EXCEPT ![Source(j)] = @ - 1]
          BY <4>1 DEF AskFails, HeadUnsupported, ProbeAnswers, GetMisses, GetAnswers, Release
        <4>3. \/ Goto(j, "page") \/ Goto(j, "body")
              \/ \E o \in {"ok", "missing", "error"} : PageEnds(j, o)
          BY <4>1 DEF AskFails, HeadUnsupported, ProbeAnswers, GetMisses, GetAnswers, AskNext
        <4>4. Goto(j, "page") \/ Goto(j, "body") \/ Goto(j, "done")
          BY <2>3, <4>3, PageEndsKinds DEF SourceFails, NextPage, Typed, Running
        <4> QED
          BY <4>2, <4>4 DEF Goto, Typed, JobsTyped
      <3>4. ASSUME NEW s \in Origin
            PROVE held'[s] \in 0 .. MaxConcurrent /\ held'[s] = Cardinality(Asked(s)')
        <4>1. CASE s = Source(j)
          <5>1. j \in Asked(s) /\ Asked(s)' = Asked(s) \ {j}
            BY <2>1, <2>3, <3>3, <4>1 DEF Asked
          <5>2. Cardinality(Asked(s)') = Cardinality(Asked(s)) - 1
            BY <5>1, FS_RemoveElement, AskedFinite
          <5>3. Cardinality(Asked(s)') \in Nat
            BY <5>1, FS_RemoveElement, FS_CardinalityType, AskedFinite
          <5>4. held'[s] = held[s] - 1 /\ held[s] \in 0 .. MaxConcurrent
            BY <3>2, <3>3, <4>1 DEF Typed, SharedTyped, Slotted
          <5> QED
            BY <1>0, <5>2, <5>3, <5>4, ConstantsTyped
        <4>2. CASE s # Source(j)
          <5>1. Asked(s)' = Asked(s)
            BY <2>1, <2>3, <3>3, <4>2 DEF Asked
          <5>2. held'[s] = held[s]
            BY <3>3, <4>2 DEF Typed, SharedTyped
          <5> QED
            BY <1>0, <5>1, <5>2 DEF Slotted
        <4> QED
          BY <4>1, <4>2
      <3> QED
        BY <1>1, <3>4
    <2>4. CASE step[j] # "ask" /\ ~TakeSlot(j)
      <3>1. /\ \/ Start(j) \/ NoSnapshot(j) \/ Reserve(j) \/ WaitEnds(j)
               \/ \E o \in {"ok", "missing", "error"} : PageEnds(j, o)
            /\ UNCHANGED held
        BY <1>3, <2>4 DEF Proceed, Advance, NoSnapshot, Reserve, ReserveFails, WaitEnds,
             WaitCancelled, SlotCancelled, AskTimesOut, BodyTimesOut, Hit, AskFails,
             HeadUnsupported, ProbeAnswers, GetMisses, GetAnswers, BodyWhole, BodyRefused,
             BodyFails, Start
      <3>2. Start(j) \/ Running(j)
        BY <1>3, StepKinds
      <3>3. Goto(j, "page") \/ Goto(j, "done") \/ Goto(j, "wait") \/ Goto(j, "slot")
        BY <3>1, <3>2, PageEndsKinds DEF Start, NoSnapshot, Reserve, WaitEnds, SourceFails, NextPage, Typed
      <3>4. step'[j] # "ask"
        BY <3>3 DEF Goto, Typed, JobsTyped
      <3> QED
        BY <1>2, <2>1, <2>4, <3>1, <3>4 DEF Asked
    <2> QED
      BY <2>2, <2>3, <2>4
  <1>4. CASE Tick
    BY <1>2, <1>4 DEF Tick, walk, Asked, Source
  <1>5. CASE UNCHANGED vars
    BY <1>2, <1>5 DEF vars, walk, Asked, Source
  <1> QED
    BY <1>3, <1>4, <1>5 DEF Next

-----------------------------------------------------------------------------
(* Tokens *)

\* The jobs that have a token of a source they have not used, and those among
\* them whose token is there at the time t.
Reserved(s) == {j \in Job : step[j] \in {"wait", "slot"} /\ Source(j) = s}
DueBy(s, t) == {j \in Reserved(s) : due[j] <= t}

\* Tokens used and tokens given out together are as far apart as Every says,
\* up to the next that is free, and at every moment to come.
TokensSpaced ==
    /\ \A s \in Origin : (calls[s] + Cardinality(Reserved(s))) * Every <= free[s]
    /\ \A s \in Origin, t \in Nat :
          t >= now => (calls[s] + Cardinality(DueBy(s, t)) - 1) * Every <= t
    /\ \A j \in Job : step[j] = "slot" => due[j] <= now

LEMMA Multiples ==
    \A a, b \in Int :
        /\ a * Every \in Int
        /\ (a + 1) * Every = a * Every + Every /\ (a - 1) * Every = a * Every - Every
        /\ a <= b => a * Every <= b * Every
  <1> SUFFICES ASSUME NEW a \in Int, NEW b \in Int
               PROVE  /\ a * Every \in Int
                      /\ (a + 1) * Every = a * Every + Every /\ (a - 1) * Every = a * Every - Every
                      /\ a <= b => a * Every <= b * Every
    OBVIOUS
  <1>1. Every \in Nat
    BY ConstantsTyped
  <1>2. a * Every \in Int /\ b * Every \in Int
    BY <1>1
  <1>3. (a + 1) * Every = a * Every + Every /\ (a - 1) * Every = a * Every - Every
    BY <1>1
  <1>4. ASSUME a <= b PROVE a * Every <= b * Every
    <2>1. (b - a) * Every = b * Every - a * Every
      BY <1>1
    <2>2. (b - a) * Every >= 0
      BY <1>1, <1>4
    <2> QED
      BY <1>2, <2>1, <2>2
  <1> QED
    BY <1>2, <1>3, <1>4

LEMMA ReservedFinite ==
    /\ \A s \in Origin : IsFiniteSet(Reserved(s)) /\ Cardinality(Reserved(s)) \in Nat
    /\ \A s \in Origin, t \in Nat :
          /\ IsFiniteSet(DueBy(s, t)) /\ Cardinality(DueBy(s, t)) \in Nat
          /\ Cardinality(DueBy(s, t)) <= Cardinality(Reserved(s))
  <1>1. \A s \in Origin : IsFiniteSet(Reserved(s)) /\ Cardinality(Reserved(s)) \in Nat
    BY FS_Subset, FS_CardinalityType, SourcesAssumption DEF Reserved, SourcesAssumption
  <1>2. \A s \in Origin, t \in Nat : DueBy(s, t) \subseteq Reserved(s)
    BY DEF DueBy
  <1> QED
    BY <1>1, <1>2, FS_Subset, FS_CardinalityType

\* The steps of a job concern the tokens of its source and its own.
LEMMA OneSourceSpaced ==
    ASSUME Typed, CachedServed, TokensSpaced, NEW j \in Job, Proceed(j) \/ Advance(j),
           NEW q \in Origin, Source(j) = q,
           UNCHANGED now,
           \A s \in Origin : s # q => calls'[s] = calls[s] /\ free'[s] = free[s],
           \A i \in Job : i # j => due'[i] = due[i],
           step'[j] \in {"wait", "slot"} => Source(j)' = q,
           step'[j] = "slot" => due'[j] <= now,
           (calls'[q] + Cardinality(Reserved(q)')) * Every <= free'[q],
           \A t \in Nat : t >= now =>
              (calls'[q] + Cardinality(DueBy(q, t)') - 1) * Every <= t
    PROVE  TokensSpaced'
  <1>1. \A i \in Job : i # j => step'[i] = step[i] /\ Source(i)' = Source(i)
    BY OthersKept DEF Source
  <1>2. ASSUME NEW s \in Origin, s # q
        PROVE  Reserved(s)' = Reserved(s) /\ \A t \in Nat : DueBy(s, t)' = DueBy(s, t)
    <2>1. Reserved(s)' = Reserved(s) /\ j \notin Reserved(s)
      <3>1. \A i \in Job : step'[i] \in {"wait", "slot"} /\ Source(i)' = s
                 <=> step[i] \in {"wait", "slot"} /\ Source(i) = s
        BY <1>1, <1>2
      <3>2. j \notin Reserved(s)
        BY <1>2 DEF Reserved
      <3> QED
        BY <3>1, <3>2 DEF Reserved
    <2>2. \A i \in Reserved(s) : i \in Job /\ i # j
      BY <2>1 DEF Reserved
    <2> QED
      BY <2>1, <2>2 DEF DueBy
  <1>3. \A s \in Origin : (calls'[s] + Cardinality(Reserved(s)')) * Every <= free'[s]
    BY <1>2 DEF TokensSpaced
  <1>4. \A s \in Origin, t \in Nat :
           t >= now' => (calls'[s] + Cardinality(DueBy(s, t)') - 1) * Every <= t
    BY <1>2 DEF TokensSpaced
  <1>5. \A i \in Job : step'[i] = "slot" => due'[i] <= now'
    BY <1>1 DEF TokensSpaced
  <1> QED
    BY <1>3, <1>4, <1>5 DEF TokensSpaced

\* A token that is taken is at least Every after all the others.
LEMMA ReserveSpaced ==
    ASSUME Typed, CachedServed, TokensSpaced, NEW j \in Job, Reserve(j)
    PROVE  TokensSpaced'
  <1>s. PICK s \in Origin : s = Source(j)
    BY RunningAt DEF Reserve, TakeSlot, WaitCancelled, SlotCancelled, Asking, Typed, Running
  <1> DEFINE d == Later(now, free[s])
             r == Cardinality(Reserved(s))
  <1>1. step[j] = "page" /\ s \in Origin /\ Proceed(j)
    BY <1>s, RunningAt DEF Reserve, Asking, Typed, Running, Proceed
  <1>2. /\ now \in Nat /\ d \in Nat /\ calls[s] \in Nat /\ free[s] \in Nat /\ Every \in Nat
        /\ now <= d /\ free[s] <= d
    BY <1>s, <1>1, ConstantsTyped DEF Typed, SharedTyped, Later
  <1>3. /\ step'[j] = "wait" /\ at' = at /\ now' = now /\ calls' = calls
        /\ due'[j] = d /\ \A i \in Job : i # j => due'[i] = due[i] /\ step'[i] = step[i]
    BY <1>s, <1>1 DEF Reserve, Goto, Typed, JobsTyped, SharedTyped, clock, walk
  <1>4. free'[s] = d + Every /\ \A q \in Origin : q # s => free'[q] = free[q]
    BY <1>s, <1>1 DEF Reserve, Typed, SharedTyped
  <1>5. j \notin Reserved(s) /\ Reserved(s)' = Reserved(s) \cup {j}
    BY <1>s, <1>1, <1>3 DEF Reserved, Source
  <1>6. r \in Nat /\ Cardinality(Reserved(s)') = r + 1
    BY <1>s, <1>1, <1>5, ReservedFinite, FS_AddElement
  <1>7. (calls[s] + r) * Every <= free[s]
    BY <1>s, <1>1 DEF TokensSpaced
  <1>8. (calls'[s] + Cardinality(Reserved(s)')) * Every <= free'[s]
    <2> DEFINE a == calls[s] + r
    <2>1. a \in Int /\ calls'[s] + Cardinality(Reserved(s)') = a + 1 /\ a * Every <= free[s]
      BY <1>2, <1>3, <1>6, <1>7
    <2> HIDE DEF a
    <2>2. (a + 1) * Every = a * Every + Every /\ a * Every \in Int
      BY <2>1, Multiples
    <2> QED
      BY <1>2, <1>4, <2>1, <2>2
  <1>9. ASSUME NEW t \in Nat, t >= now
        PROVE (calls'[s] + Cardinality(DueBy(s, t)') - 1) * Every <= t
    <2> DEFINE n == Cardinality(DueBy(s, t))
    <2>1. IsFiniteSet(DueBy(s, t)) /\ n \in Nat /\ n <= r /\ \A i \in Reserved(s) : i \in Job
      BY <1>s, <1>1, ReservedFinite DEF Reserved
    <2>2. CASE d <= t
      <3>1. j \notin DueBy(s, t) /\ DueBy(s, t)' = DueBy(s, t) \cup {j}
        BY <1>3, <1>5, <2>1, <2>2 DEF DueBy
      <3>2. Cardinality(DueBy(s, t)') = n + 1
        BY <2>1, <3>1, FS_AddElement
      <3>3. calls'[s] + Cardinality(DueBy(s, t)') - 1 = calls[s] + n
        BY <1>s, <1>2, <1>3, <2>1, <3>2
      <3>4. (calls[s] + n) * Every <= (calls[s] + r) * Every
            /\ (calls[s] + n) * Every \in Int /\ (calls[s] + r) * Every \in Int
        BY <1>s, <1>2, <1>6, <2>1, Multiples
      <3> QED
        BY <1>s, <1>2, <1>7, <2>2, <3>3, <3>4
    <2>3. CASE d > t
      <3>1. DueBy(s, t)' = DueBy(s, t)
        BY <1>2, <1>3, <1>5, <2>1, <2>3 DEF DueBy
      <3> QED
        BY <1>s, <1>1, <1>3, <1>9, <3>1 DEF TokensSpaced
    <2> QED
      BY <1>s, <1>2, <2>2, <2>3
  <1>10. Source(j)' = s
    BY <1>s, <1>3 DEF Source
  <1> HIDE DEF d, r
  <1> QED
    BY <1>s, <1>1, <1>3, <1>4, <1>8, <1>9, <1>10, OneSourceSpaced

\* A request uses a token whose time has come.
LEMMA TakeSlotSpaced ==
    ASSUME Typed, CachedServed, TokensSpaced, NEW j \in Job, TakeSlot(j)
    PROVE  TokensSpaced'
  <1>s. PICK s \in Origin : s = Source(j)
    BY RunningAt DEF Reserve, TakeSlot, WaitCancelled, SlotCancelled, Asking, Typed, Running
  <1> DEFINE r == Cardinality(Reserved(s))
  <1>1. step[j] = "slot" /\ s \in Origin /\ Advance(j) /\ due[j] <= now
    BY <1>s, RunningAt DEF TakeSlot, Typed, Running, Advance, TokensSpaced
  <1>2. now \in Nat /\ calls[s] \in Nat /\ due[j] \in Nat
    BY <1>s, <1>1, ConstantsTyped DEF Typed, SharedTyped
  <1>3. /\ step'[j] = "ask" /\ at' = at /\ now' = now /\ due' = due /\ free' = free
        /\ \A i \in Job : i # j => step'[i] = step[i]
    BY <1>s, <1>1 DEF TakeSlot, Goto, Typed, JobsTyped, clock, walk
  <1>4. calls'[s] = calls[s] + 1 /\ \A q \in Origin : q # s => calls'[q] = calls[q]
    BY <1>s, <1>1 DEF TakeSlot, Typed, SharedTyped
  <1>5. j \in Reserved(s) /\ Reserved(s)' = Reserved(s) \ {j}
    BY <1>s, <1>1, <1>3 DEF Reserved, Source
  <1>6. r \in Nat /\ Cardinality(Reserved(s)') = r - 1
    BY <1>s, <1>1, <1>5, ReservedFinite, FS_RemoveElement
  <1>7. (calls'[s] + Cardinality(Reserved(s)')) * Every <= free'[s]
    <2>1. calls'[s] + Cardinality(Reserved(s)') = calls[s] + r
      BY <1>s, <1>2, <1>4, <1>6
    <2> QED
      BY <1>s, <1>1, <1>3, <2>1 DEF TokensSpaced
  <1>8. ASSUME NEW t \in Nat, t >= now
        PROVE (calls'[s] + Cardinality(DueBy(s, t)') - 1) * Every <= t
    <2>1. j \in DueBy(s, t) /\ DueBy(s, t)' = DueBy(s, t) \ {j}
      BY <1>s, <1>1, <1>2, <1>3, <1>5, <1>8 DEF DueBy
    <2>2. /\ Cardinality(DueBy(s, t)) \in Nat
          /\ Cardinality(DueBy(s, t)') = Cardinality(DueBy(s, t)) - 1
      BY <1>s, <1>1, <2>1, ReservedFinite, FS_RemoveElement
    <2>3. calls'[s] + Cardinality(DueBy(s, t)') - 1 = calls[s] + Cardinality(DueBy(s, t)) - 1
      BY <1>s, <1>2, <1>4, <2>2
    <2> QED
      BY <1>s, <1>1, <1>8, <2>3 DEF TokensSpaced
  <1> HIDE DEF r
  <1> QED
    BY <1>s, <1>1, <1>3, <1>4, <1>7, <1>8, OneSourceSpaced

\* A token that is given up leaves the others as far apart as they were, also
\* if the last one goes back to the limiter.
LEMMA CancelSpaced ==
    ASSUME Typed, CachedServed, TokensSpaced, NEW j \in Job, WaitCancelled(j) \/ SlotCancelled(j)
    PROVE  TokensSpaced'
  <1>s. PICK s \in Origin : s = Source(j)
    BY RunningAt DEF Reserve, TakeSlot, WaitCancelled, SlotCancelled, Asking, Typed, Running
  <1> DEFINE r == Cardinality(Reserved(s))
  <1>1. step[j] \in {"wait", "slot"} /\ s \in Origin /\ Running(j) /\ Proceed(j)
    BY <1>s, RunningAt DEF WaitCancelled, SlotCancelled, Typed, Running, Proceed
  <1>2. calls[s] \in Nat /\ Every \in Nat /\ free[s] \in Nat /\ due[j] \in Nat
    BY <1>s, <1>1, ConstantsTyped DEF Typed, SharedTyped
  <1>3. PageEnds(j, "error") /\ UNCHANGED <<now, due, calls>>
    BY DEF WaitCancelled, SlotCancelled, PageEnds, clock
  <1>4. step'[j] \notin {"wait", "slot"}
    <2>1. Goto(j, "page") \/ Goto(j, "done")
      BY <1>s, <1>1, <1>3, PageEndsKinds DEF SourceFails, NextPage, Typed
    <2> QED
      BY <2>1 DEF Goto, Typed, JobsTyped
  <1>5. \A i \in Job : i # j => step'[i] = step[i] /\ Source(i)' = Source(i)
    BY <1>s, <1>1, OthersKept DEF Source
  <1>6. /\ free'[s] = free[s] \/ (free[s] = due[j] + Every /\ free'[s] = due[j])
        /\ \A q \in Origin : q # s => free'[q] = free[q]
    BY <1>s, <1>1 DEF WaitCancelled, SlotCancelled, Typed, SharedTyped
  <1>7. j \in Reserved(s) /\ Reserved(s)' = Reserved(s) \ {j}
    BY <1>s, <1>1, <1>4, <1>5 DEF Reserved
  <1>8. r \in Nat /\ Cardinality(Reserved(s)') = r - 1
    BY <1>s, <1>1, <1>7, ReservedFinite, FS_RemoveElement
  <1>9. (calls'[s] + Cardinality(Reserved(s)')) * Every <= free'[s]
    <2>1. ((calls[s] + r) - 1) * Every = (calls[s] + r) * Every - Every
          /\ (calls[s] + r) * Every \in Int
      BY <1>s, <1>2, <1>8, Multiples
    <2>2. calls'[s] + Cardinality(Reserved(s)') = (calls[s] + r) - 1
      BY <1>s, <1>2, <1>3, <1>8
    <2>3. (calls[s] + r) * Every <= free[s]
      BY <1>s, <1>1 DEF TokensSpaced
    <2> QED
      BY <1>s, <1>2, <1>6, <2>1, <2>2, <2>3
  <1>10. ASSUME NEW t \in Nat, t >= now
         PROVE (calls'[s] + Cardinality(DueBy(s, t)') - 1) * Every <= t
    <2>1. DueBy(s, t)' \subseteq DueBy(s, t)
      BY <1>3, <1>7 DEF DueBy
    <2>2. /\ Cardinality(DueBy(s, t)) \in Nat /\ Cardinality(DueBy(s, t)') \in Nat
          /\ Cardinality(DueBy(s, t)') <= Cardinality(DueBy(s, t))
      BY <1>s, <1>1, <2>1, ReservedFinite, FS_Subset, FS_CardinalityType
    <2>3. /\ (calls[s] + Cardinality(DueBy(s, t)') - 1) * Every
               <= (calls[s] + Cardinality(DueBy(s, t)) - 1) * Every
          /\ (calls[s] + Cardinality(DueBy(s, t)') - 1) * Every \in Int
          /\ (calls[s] + Cardinality(DueBy(s, t)) - 1) * Every \in Int
      BY <1>s, <1>2, <2>2, Multiples
    <2>4. (calls[s] + Cardinality(DueBy(s, t)) - 1) * Every <= t
      BY <1>s, <1>1, <1>10 DEF TokensSpaced
    <2> QED
      BY <1>3, <2>3, <2>4
  <1> HIDE DEF r
  <1> QED
    BY <1>s, <1>1, <1>3, <1>4, <1>6, <1>9, <1>10, OneSourceSpaced

LEMMA StepSpaced == Typed /\ CachedServed /\ TokensSpaced /\ [Next]_vars => TokensSpaced'
  <1> SUFFICES ASSUME Typed, CachedServed, TokensSpaced, [Next]_vars PROVE TokensSpaced'
    OBVIOUS
  \* a step that leaves the tokens alone
  <1>0. ASSUME UNCHANGED <<calls, free, due, now>>, \A s \in Origin : Reserved(s)' = Reserved(s),
               \A j \in Job : step'[j] = "slot" => due[j] <= now
        PROVE TokensSpaced'
    BY <1>0 DEF TokensSpaced, DueBy
  <1>1. ASSUME NEW j \in Job, Proceed(j) \/ Advance(j) PROVE TokensSpaced'
    <2>1. \A i \in Job : i # j => step'[i] = step[i] /\ Source(i)' = Source(i)
      BY <1>1, OthersKept DEF Source
    <2>2. CASE Reserve(j)
      BY <2>2, ReserveSpaced
    <2>3. CASE TakeSlot(j)
      BY <2>3, TakeSlotSpaced
    <2>4. CASE WaitCancelled(j) \/ SlotCancelled(j)
      BY <2>4, CancelSpaced
    <2>5. CASE WaitEnds(j)
      <3>1. /\ step[j] = "wait" /\ step'[j] = "slot" /\ at' = at /\ due[j] <= now
            /\ UNCHANGED <<calls, free, due, now>>
        BY <2>5 DEF WaitEnds, Goto, clock, walk, Typed, SharedTyped, JobsTyped
      <3>2. \A s \in Origin : Reserved(s)' = Reserved(s)
        BY <2>1, <3>1 DEF Reserved, Source
      <3> QED
        BY <1>0, <2>1, <3>1, <3>2 DEF TokensSpaced
    <2>6. CASE /\ ~Reserve(j) /\ ~TakeSlot(j) /\ ~WaitEnds(j)
               /\ ~WaitCancelled(j) /\ ~SlotCancelled(j)
      <3>1. /\ step[j] \notin {"wait", "slot"} /\ Running(j)
            /\ \/ NoSnapshot(j) \/ HeadUnsupported(j) \/ ProbeAnswers(j) \/ GetAnswers(j)
               \/ \E o \in {"ok", "missing", "error"} : PageEnds(j, o)
            /\ UNCHANGED <<calls, free, due>>
        BY <1>1, <2>6 DEF Proceed, Advance, NoSnapshot, ReserveFails, AskTimesOut, BodyTimesOut,
             Hit, AskFails, HeadUnsupported, ProbeAnswers, GetMisses, GetAnswers, BodyWhole,
             BodyRefused, BodyFails, Asking, Running
      <3>2. UNCHANGED now /\ (Goto(j, "page") \/ Goto(j, "body") \/ Goto(j, "done"))
        <4>1. CASE \E o \in {"ok", "missing", "error"} : PageEnds(j, o)
          BY <3>1, <4>1, PageEndsKinds DEF SourceFails, NextPage, Typed, PageEnds, clock
        <4>2. CASE NoSnapshot(j) \/ HeadUnsupported(j) \/ GetAnswers(j)
          BY <4>2 DEF NoSnapshot, SourceFails, HeadUnsupported, AskNext, GetAnswers, clock
        <4>3. CASE ProbeAnswers(j) /\ ~\E o \in {"ok", "missing", "error"} : PageEnds(j, o)
          BY <4>3 DEF ProbeAnswers, AskNext, clock
        <4> QED
          BY <3>1, <4>1, <4>2, <4>3
      <3>3. step'[j] \notin {"wait", "slot"}
        BY <3>2 DEF Goto, Typed, JobsTyped
      <3>4. \A s \in Origin : Reserved(s)' = Reserved(s)
        BY <2>1, <3>1, <3>3 DEF Reserved
      <3> QED
        BY <1>0, <2>1, <3>1, <3>2, <3>3, <3>4 DEF TokensSpaced
    <2> QED
      BY <2>2, <2>3, <2>4, <2>5, <2>6
  <1>2. ASSUME NEW j \in Job, Start(j) PROVE TokensSpaced'
    <2>1. /\ step[j] = "off" /\ step'[j] = "page" /\ at' = at
          /\ \A i \in Job : i # j => step'[i] = step[i]
      BY <1>2 DEF Start, Goto, walk, Typed, JobsTyped
    <2>2. \A s \in Origin : Reserved(s)' = Reserved(s)
      BY <2>1 DEF Reserved, Source
    <2> QED
      BY <1>0, <1>2, <2>1, <2>2 DEF Start, clock, TokensSpaced
  <1>3. CASE Tick
    <2>1. \A s \in Origin : Reserved(s)' = Reserved(s) /\ \A t \in Nat : DueBy(s, t)' = DueBy(s, t)
      BY <1>3 DEF Tick, Reserved, DueBy, Source, walk
    <2>2. now \in Nat /\ now' = now + 1 /\ \A j \in Job : due[j] \in Nat
      BY <1>3, ConstantsTyped DEF Tick, Typed, SharedTyped
    <2> QED
      BY <1>3, <2>1, <2>2 DEF Tick, TokensSpaced
  <1>4. CASE UNCHANGED vars
    BY <1>0, <1>4 DEF vars, clock, walk, Reserved, Source, TokensSpaced
  <1> QED
    BY <1>1, <1>2, <1>3, <1>4 DEF Next

\* The last of the tokens that were used was there by now.
LEMMA SpacedIsPolite == Typed /\ TokensSpaced => PoliteOverall
  <1> SUFFICES ASSUME Typed, TokensSpaced, NEW s \in Origin PROVE (calls[s] - 1) * Every <= now
    BY DEF PoliteOverall
  <1>1. now \in Nat /\ calls[s] \in Nat
    BY ConstantsTyped DEF Typed, SharedTyped
  <1> DEFINE a == calls[s] - 1
             b == calls[s] + Cardinality(DueBy(s, now)) - 1
  <1>2. a \in Int /\ b \in Int /\ a <= b
    BY <1>1, ReservedFinite
  <1>3. b * Every <= now
    BY <1>1 DEF TokensSpaced
  <1>4. a * Every <= now
    <2> HIDE DEF a, b
    <2>1. a * Every <= b * Every /\ a * Every \in Int /\ b * Every \in Int
      BY <1>2, Multiples
    <2> QED
      BY <1>1, <1>3, <2>1
  <1> QED
    BY <1>4

-----------------------------------------------------------------------------
(* Distance of the tokens *)

\* The tokens of calls are apart, and the next one is Every after all of them.
Apart ==
    /\ TokensApart
    /\ \A j \in Job, s \in Origin : Calling(j, s) => due[j] + Every <= free[s]

LEMMA ApartKept ==
    ASSUME Apart, UNCHANGED <<free, due>>,
           \A i \in Job, s \in Origin : Calling(i, s)' => Calling(i, s)
    PROVE  Apart'
  BY DEF Apart, TokensApart

\* A token that is taken comes after those of all calls.
LEMMA ReserveApart ==
    ASSUME Typed, CachedServed, Apart, NEW j \in Job, Reserve(j)
    PROVE  Apart'
  <1>s. PICK s \in Origin : s = Source(j) /\ step[j] = "page" /\ Proceed(j)
    BY RunningAt DEF Reserve, Asking, Typed, Running, Proceed
  <1> DEFINE d == Later(now, free[s])
  <1>1. now \in Nat /\ Every \in Nat /\ free[s] \in Nat /\ d \in Nat /\ free[s] <= d
    BY ConstantsTyped DEF Typed, SharedTyped, Later
  <1>2. /\ step'[j] = "wait" /\ at' = at /\ due'[j] = d
        /\ \A i \in Job : i # j => due'[i] = due[i] /\ step'[i] = step[i]
    BY <1>s DEF Reserve, Goto, Typed, JobsTyped, SharedTyped, walk
  <1>3. free'[s] = d + Every /\ \A q \in Origin : q # s => free'[q] = free[q]
    BY <1>s DEF Reserve, Typed, SharedTyped
  <1> HIDE DEF d
  <1>4. \A i \in Job, q \in Origin : i # j => (Calling(i, q)' <=> Calling(i, q))
    BY <1>2 DEF Calling, Source
  <1>5. \A q \in Origin : Calling(j, q)' => q = s
    BY <1>s, <1>2 DEF Calling, Source
  <1>6. \A i \in Job : due[i] \in Nat
    BY DEF Typed, SharedTyped
  <1>7. \A i \in Job, q \in Origin : Calling(i, q)' => due'[i] + Every <= free'[q]
    <2> SUFFICES ASSUME NEW i \in Job, NEW q \in Origin, Calling(i, q)'
                 PROVE  due'[i] + Every <= free'[q]
      OBVIOUS
    <2>1. CASE i = j
      BY <1>1, <1>2, <1>3, <1>5, <2>1
    <2>2. CASE i # j
      <3>1. due'[i] = due[i] /\ due[i] + Every <= free[q] /\ due[i] \in Nat
        BY <1>2, <1>4, <1>6, <2>2 DEF Apart
      <3>2. CASE q = s
        BY <1>1, <1>3, <3>1, <3>2
      <3>3. CASE q # s
        BY <1>3, <3>1, <3>3
      <3> QED
        BY <3>2, <3>3
    <2> QED
      BY <2>1, <2>2
  \* the others end before the limiter's next, so before the one taken
  <1>8. ASSUME NEW i \in Job, i # j, NEW q \in Origin, Calling(i, q)', Calling(j, q)'
        PROVE  due'[i] + Every <= due'[j]
    <2>1. q = s /\ due'[i] = due[i] /\ due[i] + Every <= free[s]
      BY <1>2, <1>4, <1>5, <1>8 DEF Apart
    <2> QED
      BY <1>1, <1>2, <1>6, <2>1
  <1>9. TokensApart'
    <2> SUFFICES ASSUME NEW q \in Origin, NEW i \in Job, NEW k \in Job, i # k,
                        Calling(i, q)', Calling(k, q)'
                 PROVE  due'[i] + Every <= due'[k] \/ due'[k] + Every <= due'[i]
      BY DEF TokensApart
    <2>1. CASE i = j \/ k = j
      BY <1>8, <2>1
    <2>2. CASE i # j /\ k # j
      BY <1>2, <1>4, <2>2 DEF Apart, TokensApart
    <2> QED
      BY <2>1, <2>2
  <1> QED
    BY <1>7, <1>9 DEF Apart

\* A token goes back only if it was the last one, and what is left of the others
\* ends before it.
LEMMA CancelApart ==
    ASSUME Typed, CachedServed, Apart, NEW j \in Job, WaitCancelled(j)
    PROVE  Apart'
  <1>s. PICK s \in Origin : s = Source(j) /\ step[j] = "wait" /\ Proceed(j) /\ Running(j)
    BY RunningAt DEF WaitCancelled, Typed, Running, Proceed
  <1>1. /\ Every \in Nat /\ free[s] \in Nat /\ \A i \in Job : due[i] \in Nat
        /\ Calling(j, s)
    BY <1>s, ConstantsTyped DEF Typed, SharedTyped, Calling
  <1>2. PageEnds(j, "error") /\ due' = due
    BY DEF WaitCancelled
  <1>3. step'[j] \notin {"wait", "slot", "ask"}
    <2>1. Goto(j, "page") \/ Goto(j, "done")
      BY <1>s, <1>2, PageEndsKinds DEF SourceFails, NextPage, Typed
    <2> QED
      BY <2>1 DEF Goto, Typed, JobsTyped
  <1>4. \A i \in Job, q \in Origin : Calling(i, q)' => i # j /\ Calling(i, q)
    BY <1>s, <1>3, OthersKept DEF Source, Calling
  <1>5. /\ free'[s] = free[s] \/ (free[s] = due[j] + Every /\ free'[s] = due[j])
        /\ \A q \in Origin : q # s => free'[q] = free[q]
    BY <1>s DEF WaitCancelled, Typed, SharedTyped
  <1>6. \A i \in Job, q \in Origin : Calling(i, q)' => due'[i] + Every <= free'[q]
    <2> SUFFICES ASSUME NEW i \in Job, NEW q \in Origin, Calling(i, q)'
                 PROVE  due[i] + Every <= free'[q]
      BY <1>2
    <2>1. i # j /\ Calling(i, q) /\ due[i] + Every <= free[q]
      BY <1>4 DEF Apart
    <2>2. CASE q = s /\ free[s] = due[j] + Every /\ free'[s] = due[j]
      <3>1. due[i] + Every <= due[j] \/ due[j] + Every <= due[i]
        BY <1>1, <2>1, <2>2 DEF Apart, TokensApart
      <3> QED
        BY <1>1, <2>1, <2>2, <3>1
    <2>3. CASE free'[q] = free[q]
      BY <2>1, <2>3
    <2> QED
      BY <1>5, <2>2, <2>3
  <1>7. TokensApart'
    BY <1>2, <1>4 DEF Apart, TokensApart
  <1> QED
    BY <1>6, <1>7 DEF Apart

LEMMA StepApart == Typed /\ CachedServed /\ Apart /\ [Next]_vars => Apart'
  <1> SUFFICES ASSUME Typed, CachedServed, Apart, [Next]_vars PROVE Apart'
    OBVIOUS
  <1>1. ASSUME NEW j \in Job, Proceed(j) \/ Advance(j), ~Reserve(j), ~WaitCancelled(j)
        PROVE  Apart'
    <2>1. \A i \in Job : i # j => step'[i] = step[i] /\ Source(i)' = Source(i)
      BY <1>1, OthersKept DEF Source
    <2>2. CASE WaitEnds(j) \/ TakeSlot(j)
      <3>1. /\ step[j] \in {"wait", "slot"} /\ at' = at /\ UNCHANGED <<free, due>>
        BY <2>2 DEF WaitEnds, TakeSlot, walk
      <3> QED
        BY <2>1, <3>1, ApartKept DEF Calling, Source
    <2>3. CASE ~WaitEnds(j) /\ ~TakeSlot(j)
      <3>1. /\ Running(j) /\ UNCHANGED <<free, due>>
            /\ \/ NoSnapshot(j) \/ HeadUnsupported(j) \/ ProbeAnswers(j) \/ GetAnswers(j)
               \/ \E o \in {"ok", "missing", "error"} : PageEnds(j, o)
        BY <1>1, <2>3 DEF Proceed, Advance, NoSnapshot, ReserveFails, SlotCancelled, AskTimesOut,
             BodyTimesOut, Hit, AskFails, HeadUnsupported, ProbeAnswers, GetMisses, GetAnswers,
             BodyWhole, BodyRefused, BodyFails, Asking, Running
      <3>2. Goto(j, "page") \/ Goto(j, "body") \/ Goto(j, "done")
        <4>1. CASE \E o \in {"ok", "missing", "error"} : PageEnds(j, o)
          BY <3>1, <4>1, PageEndsKinds DEF SourceFails, NextPage, Typed
        <4>2. CASE NoSnapshot(j) \/ HeadUnsupported(j) \/ GetAnswers(j)
          BY <4>2 DEF NoSnapshot, SourceFails, HeadUnsupported, AskNext, GetAnswers
        <4>3. CASE ProbeAnswers(j) /\ ~\E o \in {"ok", "missing", "error"} : PageEnds(j, o)
          BY <4>3 DEF ProbeAnswers, AskNext
        <4> QED
          BY <3>1, <4>1, <4>2, <4>3
      <3>3. step'[j] \notin {"wait", "slot", "ask"}
        BY <3>2 DEF Goto, Typed, JobsTyped
      <3>4. \A i \in Job, s \in Origin : Calling(i, s)' => Calling(i, s)
        BY <2>1, <3>3 DEF Calling
      <3> QED
        BY <3>1, <3>4, ApartKept
    <2> QED
      BY <2>2, <2>3
  <1>2. ASSUME NEW j \in Job, Start(j) PROVE Apart'
    <2>1. /\ step'[j] = "page" /\ at' = at /\ UNCHANGED <<free, due>>
          /\ \A i \in Job : i # j => step'[i] = step[i]
      BY <1>2 DEF Start, Goto, walk, Typed, JobsTyped
    <2>2. \A i \in Job, s \in Origin : Calling(i, s)' => Calling(i, s)
      BY <2>1 DEF Calling, Source
    <2> QED
      BY <2>1, <2>2, ApartKept
  <1>3. CASE Tick \/ UNCHANGED vars
    BY <1>3, ApartKept DEF Tick, vars, walk, Calling, Source
  <1> QED
    BY <1>1, <1>2, <1>3, ReserveApart, CancelApart DEF Next

-----------------------------------------------------------------------------
(* What a job finds *)

\* What an attempt at a page can find, be it in the cache.
Had == Served \cup elsewhere

Here(s, n) == <<s, n>> \in Served

\* Two pages in a row are missing in a set, not counting the first, before page n.
Gap(found, n) == \E m \in 1 .. n - 1 : m + 1 < n /\ m \notin found /\ m + 1 \notin found

\* A job at a mirror has passed no page that is served, and has none that
\* nobody had; miss tells whether it has the page before.
MirrorWalk(j) ==
    Running(j) /\ Source(j) \in Mirrors =>
        /\ \A n \in 0 .. page[j] - 1 : Here(Source(j), n) => n \in pages[j]
        /\ \A n \in pages[j] : n \in 0 .. page[j] - 1 /\ <<Source(j), n>> \in Had
        /\ miss[j] = 0 <=> page[j] = 0 \/ page[j] - 1 \in pages[j]
        /\ page[j] > 0 => 0 \in pages[j]
        /\ ~Gap(pages[j], page[j])

\* A job at a snapshot has what was there before its page, unless it failed.
SnapshotWalk(j) ==
    Running(j) /\ Source(j) \notin Mirrors /\ snap[j] /\ ~failed[j] =>
        \A n \in 0 .. page[j] - 1 : Here(Source(j), n) => n \in pages[j]

NothingAt(s, asked) ==
    IF s \in Mirrors THEN WorkAt(s, Served) = {} ELSE asked => \A u \in Served : u[1] # s

\* The sources a job has given up have nothing, unless a request failed.
PassedOver(j) ==
    ~failed[j] => \A i \in 1 .. at[j] - 1 : i <= Len(Order) => NothingAt(Order[i], snap[j])

Complete(j) ==
    Ready(j) /\ Source(j) \in Mirrors =>
        WorkAt(Source(j), Served) \subseteq pages[j] /\ pages[j] \subseteq WorkAt(Source(j), Had)

Walked(j) == MirrorWalk(j) /\ SnapshotWalk(j) /\ PassedOver(j) /\ Complete(j)

LEMMA ImagesKept ==
    ASSUME up' = up, elsewhere' = elsewhere
    PROVE  /\ Served' = Served /\ Had' = Had
           /\ \A s : WorkAt(s, Served)' = WorkAt(s, Served) /\ WorkAt(s, Had)' = WorkAt(s, Had)
           /\ \A s, n : Here(s, n)' <=> Here(s, n)
           /\ \A s, b : NothingAt(s, b)' <=> NothingAt(s, b)
  <1>1. Served' = Served /\ Had' = Had
    BY DEF Served, Had
  <1> QED
    BY <1>1 DEF WorkAt, Here, NothingAt

LEMMA WalkKept ==
    ASSUME NEW j \in Job, Walked(j), up' = up, elsewhere' = elsewhere,
           Running(j)' <=> Running(j), Ready(j)' <=> Ready(j),
           at'[j] = at[j], page'[j] = page[j], miss'[j] = miss[j], pages'[j] = pages[j],
           snap'[j] = snap[j], failed'[j] = failed[j]
    PROVE  Walked(j)'
  <1>1. Source(j)' = Source(j)
    BY DEF Source
  <1>2. Gap(pages[j], page[j])' <=> Gap(pages[j], page[j])
    BY DEF Gap
  <1>3. MirrorWalk(j)' /\ SnapshotWalk(j)'
    BY <1>1, <1>2, ImagesKept DEF Walked, MirrorWalk, SnapshotWalk
  <1>4. PassedOver(j)'
    BY ImagesKept DEF Walked, PassedOver
  <1>5. Complete(j)'
    BY <1>1, ImagesKept DEF Walked, Complete
  <1> QED
    BY <1>3, <1>4, <1>5 DEF Walked

\* A job gives up a source that has nothing for it, or with a failure.
LEMMA WalkFails ==
    ASSUME Typed, NEW j \in Job, Walked(j), Running(j), up' = up, elsewhere' = elsewhere,
           SourceFails(j), UNCHANGED local,
           ~failed'[j] => ~failed[j] /\ NothingAt(Source(j), snap[j])
    PROVE  Walked(j)'
  <1>1. at[j] \in 1 .. Len(Order) /\ Source(j) = Order[at[j]] /\ Len(Order) \in Nat
    BY RunningAt, ConstantsTyped DEF Typed
  <1>2. /\ at'[j] = at[j] + 1 /\ page'[j] = 0 /\ miss'[j] = 0 /\ pages'[j] = {}
        /\ step'[j] = (IF at[j] = Len(Order) THEN "done" ELSE "page")
    BY <1>1, ConstantsTyped DEF SourceFails, Goto, Typed, JobsTyped
  <1>3. snap'[j] = snap[j]
    BY DEF local
  <1>4. MirrorWalk(j)' /\ SnapshotWalk(j)'
    <2>1. ~Gap(pages[j], page[j])'
      BY <1>2 DEF Gap
    <2> QED
      BY <1>2, <2>1 DEF MirrorWalk, SnapshotWalk
  <1>5. Complete(j)'
    BY <1>1, <1>2 DEF Complete, Ready
  <1>6. PassedOver(j)'
    <2>1. ASSUME NEW i \in 1 .. at'[j] - 1, i <= Len(Order), ~failed'[j]
          PROVE  NothingAt(Order[i], snap[j])
      BY <1>1, <1>2, <2>1 DEF PassedOver, Walked
    <2> QED
      BY <1>3, <2>1, ImagesKept DEF PassedOver
  <1> QED
    BY <1>4, <1>5, <1>6 DEF Walked

\* The end of a search at a mirror, and its next page.
LEMMA MirrorPages ==
    ASSUME Typed, NEW j \in Job, Running(j), Source(j) \in Mirrors, MirrorWalk(j),
           NEW o \in {"ok", "missing"}, Ended(j, o), NEW f, f = Found(j, o), f # {},
           NEW p, p = page[j], NEW s, s = Source(j)
    PROVE  /\ \A n \in 0 .. p : Here(s, n) => n \in f
           /\ \A n \in f : n \in 0 .. p /\ <<s, n>> \in Had
           /\ Misses(j, o) = 0 <=> p \in f
           /\ 0 \in f
           /\ Misses(j, o) # 2 => ~Gap(f, p + 1)
           /\ p + 1 = MaxPages \/ Misses(j, o) = 2 =>
                 WorkAt(s, Served) \subseteq f /\ f \subseteq WorkAt(s, Had)
  <1>1. p \in Nat /\ p < MaxPages /\ MaxPages \in Nat
    BY RunningAt, ConstantsTyped DEF Typed, PageCount
  <1>2. /\ \A n \in 0 .. p - 1 : Here(s, n) => n \in pages[j]
        /\ \A n \in pages[j] : n \in 0 .. p - 1 /\ <<s, n>> \in Had
        /\ miss[j] = 0 <=> p = 0 \/ p - 1 \in pages[j]
        /\ p > 0 => 0 \in pages[j]
        /\ ~Gap(pages[j], p)
    BY DEF MirrorWalk
  <1>3. miss[j] \in 0 .. 1 /\ pages[j] \subseteq Nat
    BY DEF Typed, JobsTyped
  <1>4. /\ o = "ok" => f = pages[j] \cup {p} /\ <<s, p>> \in Had
        /\ o = "missing" => f = pages[j] /\ ~Here(s, p)
    BY DEF Ended, Here, Had, Current, Found
  <1>5. \A n \in 0 .. p : Here(s, n) => n \in f
    <2> SUFFICES ASSUME NEW n \in 0 .. p, Here(s, n) PROVE n \in f
      OBVIOUS
    <2>1. CASE n = p
      BY <1>4, <2>1
    <2>2. CASE n # p
      BY <1>1, <1>2, <1>4, <2>2
    <2> QED
      BY <2>1, <2>2
  <1>6. \A n \in f : n \in 0 .. p /\ <<s, n>> \in Had
    BY <1>1, <1>2, <1>3, <1>4
  <1>7. p \notin pages[j]
    <2> SUFFICES ASSUME p \in pages[j] PROVE FALSE
      OBVIOUS
    <2>1. p \in 0 .. p - 1
      BY <1>2
    <2> QED
      BY <1>1, <2>1
  <1>8. Misses(j, o) = 0 <=> p \in f
    BY <1>3, <1>4, <1>7 DEF Misses
  <1>9. 0 \in f
    <2>1. CASE p = 0
      <3>1. pages[j] = {}
        BY <1>2, <1>3, <2>1
      <3> QED
        BY <1>4, <2>1, <3>1
    <2> QED
      BY <1>1, <1>2, <1>4, <2>1
  \* below page p nothing has changed
  <1>10. \A n \in 0 .. p - 1 : n \in f <=> n \in pages[j]
    BY <1>1, <1>4
  <1>11. ~Gap(f, p)
    <2> SUFFICES ASSUME NEW m \in 1 .. p - 1, m + 1 < p, m \notin f, m + 1 \notin f PROVE FALSE
      BY DEF Gap
    <2>1. m \notin pages[j] /\ m + 1 \notin pages[j]
      BY <1>4
    <2> QED
      BY <1>2, <2>1 DEF Gap
  <1>12. ASSUME Misses(j, o) # 2 PROVE ~Gap(f, p + 1)
    <2> SUFFICES ASSUME NEW m \in 1 .. p, m + 1 < p + 1, m \notin f, m + 1 \notin f PROVE FALSE
      BY <1>1 DEF Gap
    <2>1. CASE m + 1 < p
      BY <1>1, <1>11, <2>1 DEF Gap
    <2>2. CASE m + 1 = p
      <3>1. o = "missing" /\ p - 1 \notin pages[j] /\ p # 0
        BY <1>1, <1>4, <2>2
      <3>2. miss[j] = 1
        BY <1>2, <1>3, <3>1
      <3> QED
        BY <1>12, <3>1, <3>2 DEF Misses
    <2> QED
      BY <1>1, <2>1, <2>2
  <1>13. f \subseteq WorkAt(s, Had)
    <2> SUFFICES ASSUME NEW n \in f PROVE n \in WorkAt(s, Had)
      OBVIOUS
    <2>1. n \in 0 .. p /\ n \in 0 .. MaxPages - 1 /\ <<s, n>> \in Had /\ <<s, 0>> \in Had
      BY <1>1, <1>6, <1>9
    <2>2. ASSUME NEW m \in 1 .. n - 1, m + 1 < n, <<s, m>> \notin Had, <<s, m + 1>> \notin Had
          PROVE  FALSE
      <3>1. m \in 1 .. p - 1 /\ m + 1 < p
        BY <1>1, <2>1, <2>2
      <3>2. m \notin f
        BY <1>6, <2>2
      <3>3. m + 1 \notin f
        BY <1>6, <2>2
      <3> QED
        BY <1>11, <3>1, <3>2, <3>3 DEF Gap
    <2> QED
      BY <2>1, <2>2 DEF WorkAt
  <1>14. ASSUME p + 1 = MaxPages PROVE WorkAt(s, Served) \subseteq f
    BY <1>1, <1>5, <1>14 DEF WorkAt, Here
  <1>15. ASSUME Misses(j, o) = 2 PROVE WorkAt(s, Served) \subseteq f
    <2>1. /\ o = "missing" /\ miss[j] = 1
      BY <1>3, <1>15 DEF Misses
    <2>2. ~Here(s, p) /\ p - 1 \notin pages[j] /\ p # 0
      BY <1>2, <1>4, <2>1
    <2>3. p > 1 /\ ~Here(s, p - 1)
      <3>1. p # 1
        BY <1>4, <1>9, <2>1, <2>2
      <3> QED
        BY <1>1, <1>2, <2>2, <3>1
    <2> SUFFICES ASSUME NEW n \in WorkAt(s, Served), n \notin f PROVE FALSE
      OBVIOUS
    <2>4. n \in 0 .. MaxPages - 1 /\ Here(s, n)
      BY DEF WorkAt, Here
    <2>5. n > p
      BY <1>1, <1>5, <2>4
    <2>6. p - 1 \in 1 .. n - 1 /\ (p - 1) + 1 < n /\ (p - 1) + 1 = p
      BY <1>1, <2>3, <2>4, <2>5
    <2> QED
      BY <2>2, <2>3, <2>6 DEF WorkAt, Here
  <1> QED
    BY <1>5, <1>6, <1>8, <1>9, <1>12, <1>13, <1>14, <1>15

LEMMA WalkPageEnds ==
    ASSUME Typed, NEW j \in Job, Walked(j), Running(j), up' = up, elsewhere' = elsewhere,
           NEW o \in {"ok", "missing", "error"}, Ended(j, o), PageEnds(j, o)
    PROVE  Walked(j)'
  <1>1. PICK p \in Nat, s \in Origin : p = page[j] /\ s = Source(j) /\ p < PageCount(s)
    BY RunningAt DEF Typed
  <1>2. /\ UNCHANGED local /\ failed' = [failed EXCEPT ![j] = @ \/ o = "error"]
    BY PageEndsKinds DEF Typed
  <1>3. failed'[j] <=> failed[j] \/ o = "error"
    BY <1>2 DEF Typed, JobsTyped
  <1>4. snap'[j] = snap[j]
    BY <1>2 DEF local
  <1>5. o = "ok" => Found(j, o) # {}
    BY <1>1 DEF Found
  <1>6. o = "missing" => Found(j, o) = pages[j] /\ ~Here(s, p)
    BY <1>1 DEF Found, Ended, Here, Current
  <1>7. CASE SourceFails(j) /\ s \in Mirrors /\ (o = "error" \/ Found(j, o) = {})
    <2>1. ASSUME o # "error" PROVE NothingAt(s, snap[j])
      <3>1. o = "missing" /\ pages[j] = {} /\ ~Here(s, p)
        BY <1>5, <1>6, <1>7, <2>1
      <3>2. p = 0
        BY <1>1, <1>7, <3>1 DEF Walked, MirrorWalk
      <3> QED
        BY <1>7, <3>1, <3>2 DEF NothingAt, WorkAt, Here
    <2> QED
      BY <1>1, <1>2, <1>3, <1>7, <2>1, WalkFails
  <1>8. CASE SourceFails(j) /\ s \notin Mirrors /\ Found(j, o) = {} /\ p + 1 = PageCount(s)
    <2>1. ASSUME o # "error", ~failed[j] PROVE NothingAt(s, snap[j])
      <3>1. o = "missing" /\ pages[j] = {} /\ ~Here(s, p)
        BY <1>5, <1>6, <1>8, <2>1
      <3>2. ASSUME snap[j] PROVE \A n \in 0 .. p : ~Here(s, n)
        BY <1>1, <1>8, <2>1, <3>1, <3>2 DEF Walked, SnapshotWalk
      <3>3. \A u \in Served : u[1] = s => u[2] \in 0 .. p /\ u = <<s, u[2]>>
        BY <1>1, <1>8, ImageIsPage DEF Served
      <3> QED
        BY <1>8, <3>2, <3>3 DEF NothingAt, Here
    <2> QED
      BY <1>1, <1>2, <1>3, <1>8, <2>1, WalkFails
  <1>c. ASSUME at' = at PROVE PassedOver(j)' /\ Source(j)' = s
    BY <1>1, <1>3, <1>4, <1>c, ImagesKept DEF Walked, PassedOver, Source
  <1>9. CASE /\ Found(j, o) # {} /\ Goto(j, "done")
             /\ pages' = [pages EXCEPT ![j] = Found(j, o)]
             /\ at' = at
             /\ p + 1 = PageCount(s) \/ (s \in Mirrors /\ Misses(j, o) = 2)
             /\ s \in Mirrors => o # "error"
    <2>1. step'[j] = "done" /\ pages'[j] = Found(j, o)
      BY <1>9 DEF Goto, Typed, JobsTyped
    <2>2. MirrorWalk(j)' /\ SnapshotWalk(j)'
      BY <2>1 DEF MirrorWalk, SnapshotWalk, Running
    <2>3. ASSUME s \in Mirrors
          PROVE  WorkAt(s, Served) \subseteq Found(j, o) /\ Found(j, o) \subseteq WorkAt(s, Had)
      BY <1>1, <1>9, <2>3, MirrorPages DEF PageCount, Walked
    <2>4. Complete(j)'
      BY <1>c, <1>9, <2>1, <2>3, ImagesKept DEF Complete
    <2> QED
      BY <1>c, <1>9, <2>2, <2>4 DEF Walked
  <1>10. CASE /\ NextPage(j, Found(j, o), IF s \in Mirrors THEN Misses(j, o) ELSE 0)
              /\ p + 1 < PageCount(s)
              /\ s \in Mirrors => o # "error" /\ Found(j, o) # {} /\ Misses(j, o) # 2
    <2>1. /\ step'[j] = "page" /\ page'[j] = p + 1 /\ pages'[j] = Found(j, o) /\ at' = at
          /\ s \in Mirrors => miss'[j] = Misses(j, o)
      BY <1>1, <1>10 DEF NextPage, Goto, Typed, JobsTyped
    <2>2. Complete(j)'
      BY <2>1 DEF Complete, Ready
    <2>3. MirrorWalk(j)'
      <3> SUFFICES ASSUME s \in Mirrors
                   PROVE  /\ \A n \in 0 .. page'[j] - 1 : Here(s, n) => n \in pages'[j]
                          /\ \A n \in pages'[j] : n \in 0 .. page'[j] - 1 /\ <<s, n>> \in Had
                          /\ miss'[j] = 0 <=> page'[j] = 0 \/ page'[j] - 1 \in pages'[j]
                          /\ page'[j] > 0 => 0 \in pages'[j]
                          /\ ~Gap(pages'[j], page'[j])
        BY <1>c, <2>1, ImagesKept DEF MirrorWalk, Gap
      <3>1. /\ \A n \in 0 .. p : Here(s, n) => n \in Found(j, o)
            /\ \A n \in Found(j, o) : n \in 0 .. p /\ <<s, n>> \in Had
            /\ Misses(j, o) = 0 <=> p \in Found(j, o)
            /\ 0 \in Found(j, o) /\ ~Gap(Found(j, o), p + 1)
        BY <1>1, <1>10, MirrorPages DEF Walked
      <3>2. p + 1 # 0 /\ p + 1 - 1 = p
        BY <1>1
      <3> QED
        BY <2>1, <3>1, <3>2
    <2>4. SnapshotWalk(j)'
      <3>1. ASSUME s \notin Mirrors, snap[j], ~failed[j], o # "error", NEW n \in 0 .. p, Here(s, n)
            PROVE  n \in Found(j, o)
        <4>1. CASE n = p
          BY <1>1, <1>6, <3>1, <4>1 DEF Found
        <4>2. CASE n # p
          BY <1>1, <3>1, <4>2 DEF Found, Walked, SnapshotWalk
        <4> QED
          BY <4>1, <4>2
      <3>2. 0 .. (p + 1) - 1 = 0 .. p
        BY <1>1
      <3> QED
        BY <1>3, <1>4, <1>c, <2>1, <3>1, <3>2, ImagesKept DEF SnapshotWalk
    <2> QED
      BY <1>c, <2>1, <2>2, <2>3, <2>4 DEF Walked
  <1> QED
    BY <1>1, <1>7, <1>8, <1>9, <1>10, PageEndsKinds DEF Typed

LEMMA StepWalked ==
    ASSUME Typed, CachedServed, Fresh, \A j \in Job : Walked(j), [Next]_vars
    PROVE  \A j \in Job : Walked(j)'
  <1>1. ASSUME NEW j \in Job, Start(j) \/ Proceed(j) \/ Advance(j), NEW i \in Job PROVE Walked(i)'
    <2>0. up' = up /\ elsewhere' = elsewhere
      BY <1>1, StepKinds DEF Start, clock
    <2>1. CASE i # j
      <3>1. /\ step'[i] = step[i] /\ at'[i] = at[i] /\ page'[i] = page[i]
            /\ miss'[i] = miss[i] /\ pages'[i] = pages[i]
            /\ snap'[i] = snap[i] /\ failed'[i] = failed[i]
        BY <1>1, <2>1, OthersKept
      <3> QED
        BY <2>0, <3>1, WalkKept DEF Running, Ready
    <2>2. CASE i = j /\ Start(j)
      <3>1. /\ at'[j] = 1 /\ page'[j] = 0 /\ pages'[j] = {} /\ miss'[j] = 0 /\ step'[j] = "page"
        BY <2>2 DEF Start, Goto, Fresh, walk, Typed, JobsTyped
      <3>2. ~Gap(pages[j], page[j])'
        BY <3>1 DEF Gap
      <3> QED
        BY <2>2, <3>1, <3>2 DEF Walked, MirrorWalk, SnapshotWalk, PassedOver, Complete, Ready
    <2>3. CASE i = j /\ PassesOver(j) /\ Running(j)
      <3>1. NothingAt(Source(j), snap[j])
        BY <2>3 DEF PassesOver, NothingAt
      <3> QED
        BY <2>0, <2>3, <3>1, WalkFails DEF PassesOver
    <2>4. ASSUME i = j, Running(j), NEW o \in {"ok", "missing", "error"}, Ended(j, o), PageEnds(j, o)
          PROVE Walked(i)'
      BY <2>0, <2>4, WalkPageEnds
    <2>5. CASE i = j /\ SamePage(j) /\ Running(j)
      <3>1. /\ Running(j)' /\ ~Ready(j)' /\ ~Ready(j)
            /\ UNCHANGED <<at, page, miss, pages, snap, failed>>
        BY <2>5 DEF SamePage, Goto, Running, Ready, Typed, JobsTyped, local
      <3> QED
        BY <2>0, <2>5, <3>1, WalkKept
    <2> QED
      BY <1>1, <2>1, <2>2, <2>3, <2>4, <2>5, StepKinds
  <1>2. ASSUME NEW i \in Job, Tick \/ UNCHANGED vars PROVE Walked(i)'
    BY <1>2, WalkKept DEF Tick, vars, clock, walk, local, Running, Ready
  <1> QED
    BY <1>1, <1>2 DEF Next

-----------------------------------------------------------------------------

\* The inductive invariant: what is cached and found, and who holds what.
IInv ==
    /\ Typed /\ Fresh /\ CachedServed /\ Slotted /\ TokensSpaced /\ Apart
    /\ \A j \in Job : Walked(j)

LEMMA InitIInv == Init => IInv
  <1> SUFFICES ASSUME Init PROVE IInv
    OBVIOUS
  <1> USE DEF Init
  <1>1. Typed
    BY ConstantsTyped DEF Typed, SharedTyped, JobsTyped, Running, FirstAsk
  <1>2. Fresh /\ CachedServed
    BY DEF Fresh, CachedServed
  <1>3. Slotted
    <2>1. \A s \in Origin : Asked(s) = {}
      BY DEF Asked
    <2>2. \A s \in Origin : held[s] = 0 /\ 0 \in 0 .. MaxConcurrent /\ Cardinality(Asked(s)) = 0
      <3>1. 0 \in 0 .. MaxConcurrent
        BY ConstantsTyped
      <3> QED
        BY <2>1, <3>1, FS_EmptySet
    <2>3. SlotsMatchRequests <=> \A s \in Origin : held[s] = Cardinality(Asked(s))
      BY DEF SlotsMatchRequests, Asked
    <2> QED
      BY <2>2, <2>3 DEF Slotted
  <1>4. TokensSpaced
    <2>1. \A s \in Origin : Reserved(s) = {} /\ \A t \in Nat : DueBy(s, t) = {}
      BY DEF Reserved, DueBy
    <2>2. \A s \in Origin : /\ calls[s] = 0 /\ free[s] = 0 /\ Cardinality(Reserved(s)) = 0
                            /\ \A t \in Nat : Cardinality(DueBy(s, t)) = 0
      BY <2>1, FS_EmptySet
    <2>3. (0 + 0) * Every = 0 /\ \A t \in Nat : (0 + 0 - 1) * Every <= t
      <3>1. Every \in Nat
        BY ConstantsTyped
      <3>2. (0 - 1) * Every = 0 - Every /\ (0 + 0) * Every = 0
        BY <3>1
      <3> QED
        BY <3>1, <3>2
    <2> QED
      BY <2>2, <2>3 DEF TokensSpaced
  <1>5. \A j \in Job : Walked(j)
    BY DEF Walked, MirrorWalk, SnapshotWalk, PassedOver, Complete, Running, Ready
  <1>6. Apart
    BY DEF Apart, TokensApart, Calling
  <1> QED
    BY <1>1, <1>2, <1>3, <1>4, <1>5, <1>6 DEF IInv

\* The parts of the invariant are preserved together by every step.
THEOREM SourcesInductive == Spec => []IInv
  <1>1. IInv /\ [Next]_vars => IInv'
    <2> SUFFICES ASSUME IInv, [Next]_vars PROVE IInv'
      OBVIOUS
    <2>1. \A j \in Job : Walked(j)'
      BY StepWalked DEF IInv
    <2> QED
      BY <2>1, StepTyped, StepFresh, StepServed, StepSlotted, StepSpaced, StepApart DEF IInv
  <1> QED
    BY InitIInv, <1>1, PTL DEF Spec

\* Every variable keeps its type: a job that runs is at a page its source may
\* have, and no source has more slots taken than there are (sources.go).
THEOREM SourcesTypeCorrect == Spec => []TypeOK
  <1>1. IInv => TypeOK
    BY DEF IInv, Typed, SharedTyped, JobsTyped, Slotted, TypeOK
  <1> QED
    BY <1>1, SourcesInductive, PTL

\* No slot is lost or given back twice, on any path through a request, for any
\* number of jobs, sources and slots.
THEOREM SlotsAreGivenBack == Spec => []SlotsMatchRequests
  <1>1. IInv => SlotsMatchRequests
    BY DEF IInv, Slotted
  <1> QED
    BY <1>1, SourcesInductive, PTL

\* However many jobs ask, are cancelled and give tokens back, a source gets no
\* more than one call per interval, on the whole (sources.go:138-142).
THEOREM SourcesArePolite == Spec => []PoliteOverall
  <1>1. IInv => PoliteOverall
    BY SpacedIsPolite DEF IInv
  <1> QED
    BY <1>1, SourcesInductive, PTL

\* The tokens of calls that wait or are under way are an interval apart, for any
\* number of jobs and sources and any interval: however long a source was left
\* alone no tokens are saved up, and a token that a cancelled job gives back is
\* not given out again too close to another (sources.go:140-146).
THEOREM TokensAreApart == Spec => []TokensApart
  <1>1. IInv => TokensApart
    BY DEF IInv, Apart
  <1> QED
    BY <1>1, SourcesInductive, PTL

\* An answer from a mirror has every page of the work that the mirror serves, and
\* beyond these only pages that others had put into the cache, whatever of it
\* was found there, and however many pages there may be (mirror.go:33-58).
THEOREM AnswersAreComplete == Spec => []MirrorComplete
  <1>1. IInv => MirrorComplete
    BY DEF IInv, Walked, Complete, MirrorComplete, Had
  <1> QED
    BY <1>1, SourcesInductive, PTL

\* A job that ends in not_found without a failed request has asked all sources,
\* and none of them has anything.
THEOREM NotFoundIsHonest == Spec => []NotFoundHonest
  <1>1. IInv => NotFoundHonest
    <2> SUFFICES ASSUME IInv, NEW j \in Job, NEW s \in Origin, NotFound(j), ~failed[j]
                 PROVE NothingAt(s, snap[j])
      BY DEF NotFoundHonest, NothingAt
    <2>1. PICK i \in 1 .. Len(Order) : s = Order[i]
      BY ConstantsTyped DEF Origin
    <2>2. i \in 1 .. at[j] - 1
      BY <2>1, ConstantsTyped DEF IInv, Typed, JobsTyped, NotFound
    <2> QED
      BY <2>1, <2>2 DEF IInv, Walked, PassedOver
  <1> QED
    BY <1>1, SourcesInductive, PTL
=============================================================================
