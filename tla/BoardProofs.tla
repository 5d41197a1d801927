----------------------------- MODULE BoardProofs -----------------------------
(***************************************************************************)
(* The virtual board shows what the design does in order, each line once,  *)
(* and never takes back an input, for any pages and any scenarios: what    *)
(* the order of the update list and the flags of vidbo.c guarantee.        *)
(***************************************************************************)
EXTENDS BoardProperties, SequenceTheorems, Arithmetic

-----------------------------------------------------------------------------
(* The invariant.                                                          *)

Positions == [Position -> SUBSET (0..9)]
Batch == [leds : Nat, seg : Int, line : Nat]
Input == {NoInput} \cup (Page \X Nat)
Design == [leds : Nat, word : [Digit -> Nibble], words : Nat, an : Digit, polled : BOOLEAN,
           lines : Nat, sw : Input]
Reader == [last : Digit \cup {-1}, digits : [Digit -> Nibble], initial : 0..bound.digits]
PageState == [st : {"off", "opening", "open", "gone"}, leds : Nat, seg : Positions,
              text : Seq(Nat), sent : Nat, toggles : Nat, connects : Nat]

Types ==
  /\ bound \in Bounds
  /\ pc \in {"run", "recv", "service", "display", "serial"}
  /\ design \in Design /\ design.word \in bound.words
  /\ design.leds <= bound.leds /\ design.lines <= bound.lines
  /\ tb \in [lastLeds : Nat, line : Nat]
  /\ tb.lastLeds <= design.leds /\ tb.line <= design.lines
  /\ sevseg \in Reader
  /\ head \in Seq(Batch)
  /\ fresh \in BOOLEAN /\ connected \in BOOLEAN /\ pending \in BOOLEAN /\ lost \in BOOLEAN
  /\ inputVals \in Input
  /\ pss \subseteq Page /\ todo \subseteq Page \X {"in", "out"}
  /\ page \in [Page -> PageState]
  /\ up \in [Page -> Seq(Nat)]

\* A poll starts with a batch of its own, which has no line before the end.
Batches ==
  /\ pc = "run" => ~fresh
  /\ fresh /\ head # <<>> => head[Len(head)].line = 0

\* The lines in the list are in order, behind all those that are shown.
LinesQueued ==
  /\ \A i, j \in 1..Len(head) :
       i < j /\ head[i].line # 0 /\ head[j].line # 0 => head[i].line < head[j].line
  /\ \A i \in 1..Len(head) : head[i].line <= tb.line
  /\ \A i \in 1..Len(head), p \in Page : \A k \in 1..Len(page[p].text) :
       head[i].line # 0 => page[p].text[k] < head[i].line

\* The lines that are shown are in order on each page and on one page only.
LinesShown ==
  /\ \A p \in Page : \A k \in 1..Len(page[p].text) : page[p].text[k] \in 1..tb.line
  /\ \A p \in Page : \A k, l \in 1..Len(page[p].text) :
       k < l => page[p].text[k] < page[p].text[l]
  /\ \A p, q \in Page : \A k \in 1..Len(page[p].text), l \in 1..Len(page[q].text) :
       p # q => page[p].text[k] # page[q].text[l]

NoLineMissing ==
  ~lost => \A n \in 1..tb.line : \/ \E i \in 1..Len(head) : head[i].line = n
                                 \/ \E p \in Page : \E k \in 1..Len(page[p].text) :
                                      page[p].text[k] = n

\* An input is newer than those before it, on the way, received or taken.
InputsBehind ==
  /\ \A p \in Page : \A i \in 1..Len(up[p]) : up[p][i] <= page[p].sent
  /\ \A p \in Page : \A i, j \in 1..Len(up[p]) : i < j => up[p][i] < up[p][j]
  /\ \A v \in {inputVals, design.sw} :
       v # NoInput => /\ v[2] <= page[v[1]].sent
                      /\ \A i \in 1..Len(up[v[1]]) : v[2] < up[v[1]][i]
  /\ inputVals # NoInput /\ ~pending => design.sw = inputVals
  /\ design.sw # NoInput => /\ inputVals # NoInput
                            /\ design.sw[1] = inputVals[1] => design.sw[2] <= inputVals[2]

BoardInv == /\ Types /\ Batches /\ LedsInOrder /\ NewestLedsKept
            /\ LinesQueued /\ LinesShown /\ NoLineMissing /\ InputsBehind
-----------------------------------------------------------------------------
\* What the invariant says, in the words of the properties.
LEMMA SaysInv == BoardInv => Inv
<1> SUFFICES ASSUME BoardInv PROVE TypeOK
  BY DEF BoardInv, Inv
<1>1. Types /\ LedsInOrder
  BY DEF BoardInv
<1>2. bound.leds \in Nat /\ bound.lines \in Nat /\ bound.digits \in Nat \ {0}
  BY <1>1, BoardAssumption DEF Types
<1>3. /\ design.leds \in Number(bound.leds) /\ design.lines \in Number(bound.lines)
      /\ design.word \in bound.words /\ design.an \in Digit
  BY <1>1, <1>2 DEF Types, Design, Number
<1>4. tb \in [lastLeds : Number(bound.leds), line : Number(bound.lines)]
  <2>1. tb.lastLeds \in Number(bound.leds) /\ tb.line \in Number(bound.lines)
    BY <1>1, <1>2 DEF Types, Design, Number
  <2> QED
    BY <1>1, <2>1 DEF Types
<1>5. sevseg.last \in Digit \cup {-1} /\ sevseg.initial \in Number(bound.digits)
  BY <1>1 DEF Types, Reader, Number
<1>6. \A i \in DOMAIN head : head[i].leds \in Number(bound.leds)
  <2> SUFFICES ASSUME NEW i \in DOMAIN head PROVE head[i].leds \in Number(bound.leds)
    OBVIOUS
  <2>1. head[i] \in Batch /\ head[i].leds <= tb.lastLeds
    BY <1>1 DEF Types, LedsInOrder
  <2>2. tb.lastLeds \in Nat /\ design.leds \in Nat /\ tb.lastLeds <= bound.leds
    BY <1>1, <1>2 DEF Types, Design
  <2>3. head[i].leds \in Nat
    BY <2>1 DEF Batch
  <2> QED
    BY <1>2, <2>1, <2>2, <2>3 DEF Number
<1>7. \A p \in Page : page[p].st \in {"off", "opening", "open", "gone"}
  BY <1>1 DEF Types, PageState
<1> QED
  BY <1>1, <1>3, <1>4, <1>5, <1>6, <1>7 DEF TypeOK, Types

LEMMA SaysLines == BoardInv => LinesShownOnce
<1> SUFFICES ASSUME BoardInv PROVE LinesShownOnce
  OBVIOUS
<1>1. Types /\ LinesQueued /\ LinesShown /\ NoLineMissing
  BY DEF BoardInv
<1>2. DOMAIN head = 1..Len(head) /\ \A p \in Page : DOMAIN page[p].text = 1..Len(page[p].text)
  BY <1>1 DEF Types, PageState
<1>3. ASSUME NEW i \in 1..Len(head) PROVE head[i].line \in Nat /\ head[i].line <= tb.line
  <2>1. head[i] \in Batch
    BY <1>1 DEF Types
  <2> QED
    BY <1>1, <2>1 DEF LinesQueued, Batch
<1>4. tb.line \in Nat
  BY <1>1 DEF Types
<1>5. ~lost => 1..tb.line = Queued \cup UNION {TextOf(p) : p \in Page}
  <2> SUFFICES ASSUME ~lost PROVE 1..tb.line = Queued \cup UNION {TextOf(p) : p \in Page}
    OBVIOUS
  <2>1. ASSUME NEW n \in 1..tb.line PROVE n \in Queued \cup UNION {TextOf(p) : p \in Page}
    BY <1>1, <1>2 DEF NoLineMissing, Queued, TextOf
  <2>2. ASSUME NEW n \in Queued PROVE n \in 1..tb.line
    BY <1>2, <1>3, <1>4 DEF Queued
  <2>3. ASSUME NEW p \in Page, NEW n \in TextOf(p) PROVE n \in 1..tb.line
    BY <1>1, <1>2 DEF LinesShown, TextOf
  <2> QED
    BY <2>1, <2>2, <2>3
<1>6. ASSUME NEW p \in Page, NEW q \in Page, p # q PROVE TextOf(p) \cap TextOf(q) = {}
  BY <1>1, <1>2, <1>6 DEF LinesShown, TextOf
<1>7. ASSUME NEW p \in Page PROVE TextOf(p) \cap Queued = {}
  <2> SUFFICES ASSUME NEW n, n \in TextOf(p), n \in Queued PROVE FALSE
    OBVIOUS
  <2>1. PICK i \in 1..Len(head) : n = head[i].line
    BY <1>2 DEF Queued
  <2>2. n # 0
    BY DEF Queued
  <2>3. PICK k \in 1..Len(page[p].text) : n = page[p].text[k]
    BY <1>2 DEF TextOf
  <2>4. page[p].text[k] < head[i].line
    BY <1>1, <2>1, <2>2, <2>3 DEF LinesQueued
  <2>5. n \in Nat /\ n < n
    BY <1>3, <2>1, <2>3, <2>4
  <2> QED
    BY <2>5
<1>8. ASSUME NEW p \in Page
      PROVE  \A i, j \in DOMAIN page[p].text : i < j => page[p].text[i] < page[p].text[j]
  BY <1>1, <1>2 DEF LinesShown
<1> QED
  BY <1>5, <1>6, <1>7, <1>8 DEF LinesShownOnce

LEMMA SaysInputs == BoardInv => InputsInOrder
<1> SUFFICES ASSUME BoardInv PROVE InputsInOrder
  OBVIOUS
<1>1. Types /\ InputsBehind
  BY DEF BoardInv
<1>2. \A p \in Page : DOMAIN up[p] = 1..Len(up[p])
  BY <1>1 DEF Types
<1>3. inputVals # NoInput => inputVals[1] \in Page
  BY <1>1 DEF Types, Input
<1> QED
  BY <1>1, <1>2, <1>3 DEF InputsBehind, InputsInOrder
-----------------------------------------------------------------------------
(* What a step leaves alone.                                               *)

\* The list and what the pages show.
Shows ==
  LedsInOrder /\ NewestLedsKept /\ LinesQueued /\ LinesShown /\ NoLineMissing

LEMMA ShowsSame ==
  ASSUME BoardInv, UNCHANGED <<head, tb>>, lost' = lost \/ lost' = TRUE,
         \A p \in Page : page'[p].leds = page[p].leds /\ page'[p].text = page[p].text
  PROVE  Shows'
<1>1. LedsInOrder' /\ NewestLedsKept'
  BY DEF BoardInv, LedsInOrder, NewestLedsKept
<1>2. LinesQueued'
  BY DEF BoardInv, LinesQueued
<1>3. LinesShown'
  <2>1. LinesShown
    BY DEF BoardInv
  <2>2. ASSUME NEW p \in Page, NEW k \in 1..Len(page'[p].text)
        PROVE  page'[p].text[k] \in 1..tb'.line
    BY <2>1 DEF LinesShown
  <2>3. ASSUME NEW p \in Page, NEW k \in 1..Len(page'[p].text), NEW l \in 1..Len(page'[p].text),
               k < l
        PROVE  page'[p].text[k] < page'[p].text[l]
    BY <2>1, <2>3 DEF LinesShown
  <2>4. ASSUME NEW p \in Page, NEW q \in Page, NEW k \in 1..Len(page'[p].text),
               NEW l \in 1..Len(page'[q].text), p # q
        PROVE  page'[p].text[k] # page'[q].text[l]
    <3>1. page'[p].text = page[p].text /\ page'[q].text = page[q].text
      OBVIOUS
    <3>2. page[p].text[k] # page[q].text[l]
      <4>1. k \in 1..Len(page[p].text) /\ l \in 1..Len(page[q].text)
        BY <3>1
      <4> QED
        BY <2>1, <2>4, <4>1 DEF LinesShown
    <3> QED
      BY <3>1, <3>2
  <2> QED
    BY <2>2, <2>3, <2>4 DEF LinesShown
<1>4. NoLineMissing'
  <2> SUFFICES ASSUME ~lost', NEW n \in 1..tb.line
               PROVE  \/ \E i \in 1..Len(head) : head[i].line = n
                      \/ \E p \in Page : \E k \in 1..Len(page'[p].text) : page'[p].text[k] = n
    BY DEF NoLineMissing
  <2>1. \/ \E i \in 1..Len(head) : head[i].line = n
        \/ \E p \in Page : \E k \in 1..Len(page[p].text) : page[p].text[k] = n
    BY DEF BoardInv, NoLineMissing
  <2> QED
    BY <2>1
<1> QED
  BY <1>1, <1>2, <1>3, <1>4 DEF Shows

\* The inputs.
LEMMA InputsSame ==
  ASSUME BoardInv, UNCHANGED <<up, inputVals, pending>>, design'.sw = design.sw,
         \A p \in Page : page'[p].sent = page[p].sent
  PROVE  InputsBehind'
<1>1. \A v \in {inputVals, design.sw} : v # NoInput => v[1] \in Page
  BY DEF BoardInv, Types, Input, Design
<1> QED
  BY <1>1 DEF BoardInv, InputsBehind

LEMMA PageType ==
  ASSUME Types, NEW p \in Page
  PROVE  /\ page[p] \in PageState /\ page[p].leds \in Nat /\ page[p].text \in Seq(Nat)
         /\ page[p].sent \in Nat /\ page[p].toggles \in Nat /\ page[p].connects \in Nat
         /\ up[p] \in Seq(Nat)
BY DEF Types, PageState

\* Only the scenario decides which digits, words and batches there are.
LEMMA SameKinds ==
  ASSUME bound' = bound
  PROVE  /\ Positions' = Positions /\ Batch' = Batch /\ Design' = Design
         /\ Reader' = Reader /\ PageState' = PageState /\ Digit' = Digit
BY DEF Positions, Position, Batch, Design, Reader, PageState, Digit

\* A page that changes in nothing that is seen.
LEMMA PageMoves ==
  ASSUME Types, NEW p \in Page, NEW s \in PageState,
         s.leds = page[p].leds, s.text = page[p].text,
         page' = [page EXCEPT ![p] = s]
  PROVE  /\ page' \in [Page -> PageState]
         /\ \A q \in Page : page'[q].leds = page[q].leds /\ page'[q].text = page[q].text
         /\ page'[p] = s /\ \A q \in Page \ {p} : page'[q] = page[q]
BY DEF Types
-----------------------------------------------------------------------------
(* The design.                                                             *)

\* The program and the scan change nothing that is sent yet.
LEMMA DesignKeeps ==
  ASSUME BoardInv, NEW d \in Design, DesignStep(d), d.word \in bound.words,
         d.leds \in design.leds..bound.leds, d.lines \in design.lines..bound.lines,
         d.sw = design.sw
  PROVE  BoardInv'
<1>1. /\ UNCHANGED <<bound, pc, tb, sevseg, vidbo, todo, page, up, lost>> /\ design' = d
  BY DEF DesignStep
<1>2. /\ UNCHANGED <<bound, pc, tb, sevseg, head, fresh, connected, pending, inputVals, pss>>
      /\ UNCHANGED <<todo, page, up, lost>>
  BY <1>1 DEF vidbo
<1>3. Types'
  <2>1. d.leds \in Nat /\ d.lines \in Nat /\ design.leds \in Nat /\ design.lines \in Nat
        /\ tb.lastLeds \in Nat /\ tb.line \in Nat
        /\ tb.lastLeds <= design.leds /\ tb.line <= design.lines
    BY DEF BoardInv, Types, Design
  <2>2. tb.lastLeds <= d.leds /\ tb.line <= d.lines /\ d.leds <= bound.leds
        /\ d.lines <= bound.lines
    BY <2>1
  <2> QED
    BY <1>1, <1>2, <2>2, SameKinds DEF BoardInv, Types
<1>4. Shows'
  BY <1>2, ShowsSame
<1>5. InputsBehind'
  BY <1>1, <1>2, InputsSame
<1>6. Batches'
  BY <1>2 DEF BoardInv, Batches
<1> QED
  BY <1>3, <1>4, <1>5, <1>6 DEF BoardInv, Shows

LEMMA SoftwareStep ==
  ASSUME BoardInv, Software \/ NextDigit
  PROVE  BoardInv'
<1>1. /\ design \in Design /\ design.word \in bound.words /\ bound \in Bounds
      /\ design.leds \in Nat /\ design.lines \in Nat /\ design.an \in Digit
      /\ design.words \in Nat
      /\ design.leds <= bound.leds /\ design.lines <= bound.lines
  BY DEF BoardInv, Types, Design
<1>2. bound.leds \in Nat /\ bound.lines \in Nat /\ bound.digits \in Nat \ {0}
      /\ bound.words \subseteq [Digit -> Nibble]
  BY <1>1, BoardAssumption DEF Digit
<1>3. CASE ChangeLeds
  <2> DEFINE d == [design EXCEPT !.leds = @ + 1]
  <2>1. /\ d \in Design /\ d.word = design.word /\ d.leds = design.leds + 1
        /\ d.lines = design.lines /\ d.sw = design.sw
    BY <1>1 DEF Design
  <2>2. DesignStep(d) /\ design.leds < bound.leds
    BY <1>3 DEF ChangeLeds
  <2> HIDE DEF d
  <2>3. d.leds \in design.leds..bound.leds /\ d.lines \in design.lines..bound.lines
    BY <1>1, <1>2, <2>1, <2>2
  <2> QED
    BY <1>1, <2>1, <2>2, <2>3, DesignKeeps
<1>4. CASE PrintLine
  <2> DEFINE d == [design EXCEPT !.lines = @ + 1]
  <2>1. /\ d \in Design /\ d.word = design.word /\ d.lines = design.lines + 1
        /\ d.leds = design.leds /\ d.sw = design.sw
    BY <1>1 DEF Design
  <2>2. DesignStep(d) /\ design.lines < bound.lines
    BY <1>4 DEF PrintLine
  <2> HIDE DEF d
  <2>3. d.leds \in design.leds..bound.leds /\ d.lines \in design.lines..bound.lines
    BY <1>1, <1>2, <2>1, <2>2
  <2> QED
    BY <1>1, <2>1, <2>2, <2>3, DesignKeeps
<1>5. CASE WriteDigits
  <2>1. PICK w \in bound.words : DesignStep([design EXCEPT !.word = w, !.words = @ + 1])
    BY <1>5 DEF WriteDigits
  <2> DEFINE d == [design EXCEPT !.word = w, !.words = @ + 1]
  <2>2. w \in [Digit -> Nibble]
    BY <1>2
  <2>3. /\ d \in Design /\ d.word = w /\ d.lines = design.lines
        /\ d.leds = design.leds /\ d.sw = design.sw
    <3> DEFINE n == design.words + 1
    <3>1. n \in Nat /\ d = [design EXCEPT !.word = w, !.words = n]
      BY <1>1
    <3> HIDE DEF d, n
    <3> QED
      BY <1>1, <2>2, <3>1 DEF Design
  <2> HIDE DEF d
  <2>4. d.leds \in design.leds..bound.leds /\ d.lines \in design.lines..bound.lines
    BY <1>1, <1>2, <2>3
  <2> QED
    BY <2>1, <2>3, <2>4, DesignKeeps DEF d
<1>6. CASE NextDigit
  <2> DEFINE d == [design EXCEPT !.an = (@ + 1) % bound.digits, !.polled = FALSE]
  <2>1. (design.an + 1) % bound.digits \in Digit
    <3>1. design.an \in Nat
      BY <1>1 DEF Digit
    <3> QED
      BY <1>2, <3>1 DEF Digit
  <2>2. /\ d \in Design /\ d.word = design.word /\ d.lines = design.lines
        /\ d.leds = design.leds /\ d.sw = design.sw
    BY <1>1, <2>1 DEF Design
  <2>3. DesignStep(d)
    BY <1>6 DEF NextDigit
  <2> HIDE DEF d
  <2>4. d.leds \in design.leds..bound.leds /\ d.lines \in design.lines..bound.lines
    BY <1>1, <1>2, <2>2
  <2> QED
    BY <1>1, <2>2, <2>3, <2>4, DesignKeeps
<1> QED
  BY <1>3, <1>4, <1>5, <1>6 DEF Software
-----------------------------------------------------------------------------
(* The update list.                                                        *)

\* The batches that are there already, with an empty one for a new time.
Before(m) == [i \in 1..m |-> IF i <= Len(head) THEN head[i] ELSE EmptyBatch]

LEMMA BeforeFacts ==
  ASSUME BoardInv, NEW m \in Nat, Len(head) <= m, m <= Len(head) + 1
  PROVE  /\ \A i \in 1..m : Before(m)[i] \in Batch
         /\ \A i \in 1..m : i <= Len(head) => Before(m)[i] = head[i]
         /\ \A i \in 1..m : /\ Before(m)[i].leds \in Nat /\ Before(m)[i].line \in Nat
                            /\ Before(m)[i].leds <= tb.lastLeds /\ Before(m)[i].line <= tb.line
         /\ \A i, j \in 1..m : i < j /\ Before(m)[i].leds # 0 /\ Before(m)[j].leds # 0
                                 => Before(m)[i].leds < Before(m)[j].leds
         /\ \A i, j \in 1..m : i < j /\ Before(m)[i].line # 0 /\ Before(m)[j].line # 0
                                 => Before(m)[i].line < Before(m)[j].line
         /\ \A i \in 1..m, p \in Page : Before(m)[i].leds # 0 => page[p].leds < Before(m)[i].leds
         /\ \A i \in 1..m, p \in Page : \A k \in 1..Len(page[p].text) :
              Before(m)[i].line # 0 => page[p].text[k] < Before(m)[i].line
<1>1. /\ head \in Seq(Batch) /\ Len(head) \in Nat /\ DOMAIN head = 1..Len(head)
      /\ tb.lastLeds \in Nat /\ tb.line \in Nat
  BY DEF BoardInv, Types
<1>2. EmptyBatch \in Batch /\ EmptyBatch.leds = 0 /\ EmptyBatch.line = 0
  BY DEF EmptyBatch, Batch, NoNumber
<1>3. \A i \in 1..m : /\ i <= Len(head) => i \in 1..Len(head) /\ Before(m)[i] = head[i]
                      /\ ~(i <= Len(head)) => Before(m)[i] = EmptyBatch
  BY <1>1 DEF Before
<1>4. \A i \in 1..Len(head) : head[i] \in Batch
  BY <1>1
<1>5. \A i \in 1..m : Before(m)[i] \in Batch
  BY <1>2, <1>3, <1>4
<1>6. \A i \in 1..m : Before(m)[i].leds \in Nat /\ Before(m)[i].line \in Nat
  BY <1>5 DEF Batch
<1>7. \A i \in 1..m : Before(m)[i].leds <= tb.lastLeds /\ Before(m)[i].line <= tb.line
  BY <1>1, <1>2, <1>3 DEF BoardInv, LedsInOrder, LinesQueued
<1>8. \A i, j \in 1..m : i < j /\ Before(m)[i].leds # 0 /\ Before(m)[j].leds # 0
                           => Before(m)[i].leds < Before(m)[j].leds
  <2>1. \A i, j \in 1..Len(head) : i < j /\ head[i].leds # 0 /\ head[j].leds # 0
                                     => head[i].leds < head[j].leds
    BY <1>1 DEF BoardInv, LedsInOrder
  <2> QED
    BY <1>2, <1>3, <2>1
<1>9. \A i, j \in 1..m : i < j /\ Before(m)[i].line # 0 /\ Before(m)[j].line # 0
                           => Before(m)[i].line < Before(m)[j].line
  BY <1>2, <1>3 DEF BoardInv, LinesQueued
<1>10. \A i \in 1..m, p \in Page : Before(m)[i].leds # 0 => page[p].leds < Before(m)[i].leds
  BY <1>1, <1>2, <1>3 DEF BoardInv, LedsInOrder
<1>11. \A i \in 1..m, p \in Page : \A k \in 1..Len(page[p].text) :
         Before(m)[i].line # 0 => page[p].text[k] < Before(m)[i].line
  BY <1>2, <1>3 DEF BoardInv, LinesQueued
<1> QED
  BY <1>3, <1>5, <1>6, <1>7, <1>8, <1>9, <1>10, <1>11

\* The last batch of the list, a new one or one of this time, becomes b.
Grows(m, b) ==
  /\ Len(head) <= m /\ m <= Len(head) + 1 /\ m # 0
  /\ head' \in Seq(Batch) /\ Len(head') = m
  /\ \A i \in 1..m : i # m => head'[i] = head[i]
  /\ head'[m] = b

\* What the update says is newer than all that was said.
Newer(was, b) ==
  \/ tb' = tb /\ b.leds = was.leds /\ b.line = was.line
  \/ /\ tb'.line = tb.line /\ b.line = was.line
     /\ tb'.lastLeds = b.leds /\ b.leds > tb.lastLeds
  \/ /\ tb'.lastLeds = tb.lastLeds /\ b.leds = was.leds
     /\ tb'.line = tb.line + 1 /\ b.line = tb'.line /\ was.line = 0

LEMMA ListGrows ==
  ASSUME BoardInv, NEW m \in Nat, NEW b \in Batch, Grows(m, b), Newer(Before(m)[m], b),
         UNCHANGED <<page, lost>>
  PROVE  Shows'
<1> DEFINE w == Before(m)
<1>1. /\ Len(head) \in Nat /\ tb.lastLeds \in Nat /\ tb.line \in Nat /\ m \in 1..m
      /\ Len(head) <= m /\ m <= Len(head) + 1 /\ Len(head') = m /\ DOMAIN head' = 1..m
      /\ DOMAIN head = 1..Len(head)
  BY DEF BoardInv, Types, Grows
<1>2. /\ \A i \in 1..m : i <= Len(head) => w[i] = head[i]
      /\ \A i \in 1..m : /\ w[i].leds \in Nat /\ w[i].line \in Nat
                         /\ w[i].leds <= tb.lastLeds /\ w[i].line <= tb.line
  BY <1>1, BeforeFacts
<1>3. /\ \A i, j \in 1..m : i < j /\ w[i].leds # 0 /\ w[j].leds # 0 => w[i].leds < w[j].leds
      /\ \A i \in 1..m, p \in Page : w[i].leds # 0 => page[p].leds < w[i].leds
  BY <1>1, BeforeFacts
<1>4. /\ \A i, j \in 1..m : i < j /\ w[i].line # 0 /\ w[j].line # 0 => w[i].line < w[j].line
      /\ \A i \in 1..m, p \in Page : \A k \in 1..Len(page[p].text) :
           w[i].line # 0 => page[p].text[k] < w[i].line
  BY <1>1, BeforeFacts
<1>5. Newer(w[m], b)
  OBVIOUS
<1> HIDE DEF w
<1>6. \A i \in 1..m : i # m => head'[i] = w[i]
  BY <1>1, <1>2 DEF Grows
<1>7. b.leds \in Nat /\ b.line \in Nat /\ head'[m] = b
  BY DEF Batch, Grows
<1>8. \A p \in Page : page[p].leds \in Nat /\ page[p].leds <= tb.lastLeds
  BY <1>1, PageType DEF BoardInv, LedsInOrder
<1>9. \/ b.leds = w[m].leds /\ tb'.lastLeds = tb.lastLeds
      \/ b.leds > tb.lastLeds /\ tb'.lastLeds = b.leds
  BY <1>5 DEF Newer
<1>10. \/ b.line = w[m].line /\ tb'.line = tb.line
       \/ w[m].line = 0 /\ b.line = tb.line + 1 /\ tb'.line = tb.line + 1
  BY <1>5 DEF Newer
<1>11. LedsInOrder'
  <2>1. ASSUME NEW i \in 1..m, NEW j \in 1..m, i < j, head'[i].leds # 0, head'[j].leds # 0
        PROVE  head'[i].leds < head'[j].leds
    <3>1. i # m /\ head'[i] = w[i]
      BY <1>6, <2>1
    <3>2. CASE j # m
      BY <1>3, <1>6, <2>1, <3>1, <3>2
    <3>3. CASE j = m
      BY <1>1, <1>2, <1>3, <1>7, <1>9, <2>1, <3>1, <3>3
    <3> QED
      BY <3>2, <3>3
  <2>2. \A i \in 1..m, p \in Page : head'[i].leds # 0 => page[p].leds < head'[i].leds
    BY <1>1, <1>2, <1>3, <1>6, <1>7, <1>8, <1>9
  <2>3. \A i \in 1..m : head'[i].leds <= tb'.lastLeds
    BY <1>1, <1>2, <1>6, <1>7, <1>9
  <2>4. \A p \in Page : page[p].leds <= tb'.lastLeds
    BY <1>1, <1>7, <1>8, <1>9
  <2> QED
    BY <1>1, <2>1, <2>2, <2>3, <2>4 DEF LedsInOrder
<1>12. NewestLedsKept'
  <2>1. CASE b.leds = w[m].leds /\ tb'.lastLeds = tb.lastLeds
    <3> SUFFICES ASSUME ~lost, tb.lastLeds # 0
                 PROVE  \/ \E p \in Page : page[p].leds = tb.lastLeds
                        \/ \E i \in 1..m : head'[i].leds = tb.lastLeds
      BY <1>1, <2>1 DEF NewestLedsKept
    <3>1. \/ \E p \in Page : page[p].leds = tb.lastLeds
          \/ \E i \in 1..Len(head) : head[i].leds = tb.lastLeds
      BY <1>1 DEF BoardInv, NewestLedsKept
    <3>2. \A i \in 1..Len(head) : i \in 1..m /\ head'[i].leds = head[i].leds
      BY <1>1, <1>2, <1>6, <1>7, <2>1
    <3> QED
      BY <3>1, <3>2
  <2>2. CASE tb'.lastLeds = b.leds
    BY <1>1, <1>7, <2>2 DEF NewestLedsKept
  <2> QED
    BY <1>9, <2>1, <2>2
<1>13. LinesQueued'
  <2>1. \A p \in Page : \A k \in 1..Len(page[p].text) :
          page[p].text[k] \in Nat /\ page[p].text[k] <= tb.line
    BY <1>1 DEF BoardInv, LinesShown
  <2>2. \A i, j \in 1..m : i < j /\ head'[i].line # 0 /\ head'[j].line # 0
                             => head'[i].line < head'[j].line
    <3> SUFFICES ASSUME NEW i \in 1..m, NEW j \in 1..m, i < j, head'[i].line # 0,
                        head'[j].line # 0
                 PROVE  head'[i].line < head'[j].line
      OBVIOUS
    <3>1. i # m /\ head'[i] = w[i] /\ w[i].line \in Nat /\ w[i].line <= tb.line
      BY <1>1, <1>2, <1>6
    <3>2. CASE j = m
      BY <1>1, <1>2, <1>4, <1>7, <1>10, <3>1, <3>2
    <3>3. CASE j # m
      BY <1>4, <1>6, <3>1, <3>3
    <3> QED
      BY <3>2, <3>3
  <2>3. \A i \in 1..m : head'[i].line <= tb'.line
    BY <1>1, <1>2, <1>6, <1>7, <1>10
  <2>4. \A i \in 1..m, p \in Page : \A k \in 1..Len(page[p].text) :
          head'[i].line # 0 => page[p].text[k] < head'[i].line
    <3> SUFFICES ASSUME NEW i \in 1..m, NEW p \in Page, NEW k \in 1..Len(page[p].text),
                        head'[i].line # 0
                 PROVE  page[p].text[k] < head'[i].line
      OBVIOUS
    <3>1. page[p].text[k] \in Nat /\ page[p].text[k] <= tb.line
      BY <2>1
    <3>2. CASE i = m
      BY <1>1, <1>2, <1>4, <1>7, <1>10, <3>1, <3>2
    <3>3. CASE i # m
      BY <1>4, <1>6, <3>3
    <3> QED
      BY <3>2, <3>3
  <2> QED
    BY <1>1, <2>2, <2>3, <2>4 DEF LinesQueued
<1>14. LinesShown'
  <2>1. LinesShown /\ tb'.line \in Nat /\ tb.line <= tb'.line
    BY <1>1, <1>10 DEF BoardInv
  <2>2. \A p \in Page : \A k \in 1..Len(page[p].text) : page[p].text[k] \in 1..tb'.line
    <3>1. \A p \in Page : \A k \in 1..Len(page[p].text) : page[p].text[k] \in 1..tb.line
      BY <2>1 DEF LinesShown
    <3>2. 1..tb.line \subseteq 1..tb'.line
      BY <1>1, <2>1
    <3> QED
      BY <3>1, <3>2
  <2> QED
    BY <2>1, <2>2 DEF LinesShown
<1>15. NoLineMissing'
  <2> SUFFICES ASSUME ~lost, NEW n \in 1..tb'.line
               PROVE  \/ \E i \in 1..m : head'[i].line = n
                      \/ \E p \in Page : \E k \in 1..Len(page[p].text) : page[p].text[k] = n
    BY <1>1 DEF NoLineMissing
  <2>1. CASE n <= tb.line
    <3>1. \/ \E i \in 1..Len(head) : head[i].line = n
          \/ \E p \in Page : \E k \in 1..Len(page[p].text) : page[p].text[k] = n
      BY <1>1, <1>10, <2>1 DEF BoardInv, NoLineMissing
    <3>2. ASSUME NEW i \in 1..Len(head), head[i].line = n PROVE i \in 1..m /\ head'[i].line = n
      <4>1. i \in 1..m /\ w[i] = head[i] /\ w[i].line # 0
        BY <1>1, <1>2, <3>2
      <4> QED
        BY <1>6, <1>7, <1>10, <3>2, <4>1
    <3> QED
      BY <3>1, <3>2
  <2>2. CASE ~(n <= tb.line)
    BY <1>1, <1>7, <1>10, <2>2
  <2> QED
    BY <2>1, <2>2
<1> QED
  BY <1>11, <1>12, <1>13, <1>14, <1>15 DEF Shows

\* Whatever the page is sent, each position shows one numeral or none.
LEMMA DisplayType ==
  ASSUME NEW seg \in Positions, NEW value
  PROVE  setValueToDisplay(seg, value) \in Positions
BY DEF setValueToDisplay, Positions

\* The page takes the oldest batch: what it shows stays behind the others.
LEMMA ListPopped ==
  ASSUME BoardInv, head # <<>>, head' = Tail(head), UNCHANGED <<tb, lost>>,
         NEW p \in Page, page' = [page EXCEPT ![p] = Shown(page[p], Head(head))]
  PROVE  /\ Shows' /\ page' \in [Page -> PageState]
         /\ \A q \in Page : page'[q].sent = page[q].sent
<1> DEFINE b == Head(head)
           pg == Shown(page[p], b)
<1>1. /\ head \in Seq(Batch) /\ Len(head) \in Nat \ {0} /\ DOMAIN head = 1..Len(head)
      /\ tb.lastLeds \in Nat /\ tb.line \in Nat /\ b = head[1]
  BY EmptySeq, LenProperties DEF BoardInv, Types
<1>2. /\ head' \in Seq(Batch) /\ Len(head') = Len(head) - 1
      /\ \A i \in 1..Len(head)-1 : head'[i] = head[i+1] /\ i + 1 \in 1..Len(head)
      /\ DOMAIN head' = 1..Len(head)-1
  <2>1. head' \in Seq(Batch) /\ Len(head') = Len(head) - 1
        /\ \A i \in 1..Len(Tail(head)) : Tail(head)[i] = head[i+1]
    BY <1>1, HeadTailProperties
  <2> QED
    BY <1>1, <2>1
<1>3. b \in Batch /\ b.leds \in Nat /\ b.line \in Nat /\ b.seg \in Int
  <2>1. b \in Batch
    BY <1>1
  <2> QED
    BY <2>1 DEF Batch
<1>4. /\ page[p] \in PageState /\ page[p].leds \in Nat /\ page[p].text \in Seq(Nat)
      /\ \A q \in Page : /\ page[q].leds \in Nat /\ page[q].text \in Seq(Nat)
                         /\ Len(page[q].text) \in Nat
      /\ page \in [Page -> PageState]
  BY PageType DEF BoardInv, Types
<1>5. /\ pg \in PageState /\ pg.sent = page[p].sent
      /\ pg.leds = IF b.leds = 0 THEN page[p].leds ELSE b.leds
      /\ pg.text = IF b.line = 0 THEN page[p].text ELSE Append(page[p].text, b.line)
  <2>1. Append(page[p].text, b.line) \in Seq(Nat)
    BY <1>3, <1>4
  <2> HIDE DEF b
  <2> QED
    BY <1>3, <1>4, <2>1, DisplayType DEF Shown, PageState
<1>6. page' = [page EXCEPT ![p] = pg]
  OBVIOUS
<1> HIDE DEF pg, b
<1>7. page'[p] = pg /\ \A q \in Page \ {p} : page'[q] = page[q]
  BY <1>4, <1>6
<1>8. page' \in [Page -> PageState] /\ \A q \in Page : page'[q].sent = page[q].sent
  BY <1>4, <1>5, <1>6, <1>7
<1>9. /\ LedsInOrder /\ NewestLedsKept /\ LinesQueued /\ LinesShown /\ NoLineMissing
  BY DEF BoardInv
<1>10. \A q \in Page : \/ page'[q].leds = page[q].leds
                       \/ q = p /\ b.leds # 0 /\ page'[q].leds = b.leds
  BY <1>5, <1>7
<1>11. /\ \A i, j \in 1..Len(head) : i < j /\ head[i].leds # 0 /\ head[j].leds # 0
                                       => head[i].leds < head[j].leds
       /\ \A i \in 1..Len(head), q \in Page : head[i].leds # 0 => page[q].leds < head[i].leds
       /\ \A i \in 1..Len(head) : head[i].leds <= tb.lastLeds
       /\ \A q \in Page : page[q].leds <= tb.lastLeds
  BY <1>1, <1>9 DEF LedsInOrder
<1>12. LedsInOrder'
  <2>1. \A i, j \in 1..Len(head)-1 : i < j /\ head'[i].leds # 0 /\ head'[j].leds # 0
                                       => head'[i].leds < head'[j].leds
    BY <1>1, <1>2, <1>11
  <2>2. \A i \in 1..Len(head)-1, q \in Page :
          head'[i].leds # 0 => page'[q].leds < head'[i].leds
    <3> SUFFICES ASSUME NEW i \in 1..Len(head)-1, NEW q \in Page, head'[i].leds # 0
                 PROVE  page'[q].leds < head'[i].leds
      OBVIOUS
    <3>1. head'[i] = head[i+1] /\ i + 1 \in 1..Len(head) /\ 1 \in 1..Len(head) /\ 1 < i + 1
      BY <1>1, <1>2
    <3> QED
      BY <1>1, <1>10, <1>11, <3>1
  <2>3. \A i \in 1..Len(head)-1 : head'[i].leds <= tb.lastLeds
    BY <1>2, <1>11
  <2>4. \A q \in Page : page'[q].leds <= tb.lastLeds
    BY <1>1, <1>10, <1>11
  <2> QED
    BY <1>2, <2>1, <2>2, <2>3, <2>4 DEF LedsInOrder
<1>13. NewestLedsKept'
  <2> SUFFICES ASSUME ~lost, tb.lastLeds # 0
               PROVE  \/ \E q \in Page : page'[q].leds = tb.lastLeds
                      \/ \E i \in 1..Len(head)-1 : head'[i].leds = tb.lastLeds
    BY <1>2 DEF NewestLedsKept
  <2>1. \/ \E q \in Page : page[q].leds = tb.lastLeds
        \/ \E i \in 1..Len(head) : head[i].leds = tb.lastLeds
    BY <1>1, <1>9 DEF NewestLedsKept
  <2>2. ASSUME NEW q \in Page, page[q].leds = tb.lastLeds
        PROVE  page'[q].leds = tb.lastLeds
    <3>1. 1 \in 1..Len(head)
      BY <1>1
    <3> QED
      BY <1>1, <1>3, <1>4, <1>10, <1>11, <2>2, <3>1
  <2>3. ASSUME NEW i \in 1..Len(head), head[i].leds = tb.lastLeds
        PROVE  \/ page'[p].leds = tb.lastLeds
               \/ \E j \in 1..Len(head)-1 : head'[j].leds = tb.lastLeds
    <3>1. CASE i = 1
      BY <1>1, <1>5, <1>7, <2>3, <3>1
    <3>2. CASE i # 1
      <4>1. i - 1 \in 1..Len(head)-1 /\ head'[i-1] = head[i]
        BY <1>1, <1>2, <3>2
      <4> QED
        BY <2>3, <4>1
    <3> QED
      BY <3>1, <3>2
  <2> QED
    BY <2>1, <2>2, <2>3
\* The text of the page, and its new end when there is one.
<1>14. \A q \in Page : \A k \in 1..Len(page'[q].text) :
         \/ k \in 1..Len(page[q].text) /\ page'[q].text[k] = page[q].text[k]
         \/ /\ q = p /\ b.line # 0 /\ page'[q].text[k] = b.line
            /\ \A l \in 1..Len(page'[q].text) : l # k => l < k /\ l \in 1..Len(page[q].text)
  <2> SUFFICES ASSUME NEW k \in 1..Len(page'[p].text), b.line # 0
               PROVE  \/ /\ k \in 1..Len(page[p].text)
                         /\ page'[p].text[k] = page[p].text[k]
                      \/ /\ page'[p].text[k] = b.line
                         /\ \A l \in 1..Len(page'[p].text) :
                              l # k => l < k /\ l \in 1..Len(page[p].text)
    BY <1>5, <1>7
  <2> DEFINE t == page[p].text
  <2>1. /\ page'[p].text = Append(t, b.line) /\ Len(t) \in Nat
        /\ Len(Append(t, b.line)) = Len(t) + 1
        /\ Append(t, b.line)[Len(t) + 1] = b.line
        /\ \A l \in 1..Len(t) : Append(t, b.line)[l] = t[l]
    BY <1>3, <1>4, <1>5, <1>7, AppendProperties
  <2> HIDE DEF t
  <2>2. k \in 1..Len(t) \/ k = Len(t) + 1
    BY <2>1
  <2>3. CASE k \in 1..Len(t)
    BY <2>1, <2>3 DEF t
  <2>4. CASE k = Len(t) + 1
    <3>1. page'[p].text[k] = b.line
      BY <2>1, <2>4
    <3>2. \A l \in 1..Len(page'[p].text) : l # k => l < k /\ l \in 1..Len(t)
      BY <2>1, <2>4
    <3> QED
      BY <3>1, <3>2 DEF t
  <2> QED
    BY <2>2, <2>3, <2>4
<1>15. \A q \in Page : \A k \in 1..Len(page[q].text) :
         k \in 1..Len(page'[q].text) /\ page'[q].text[k] = page[q].text[k]
  <2>1. CASE b.line = 0
    BY <1>5, <1>7, <2>1
  <2>2. CASE b.line # 0
    <3> DEFINE t == page[p].text
    <3>1. /\ page'[p].text = Append(t, b.line) /\ Len(t) \in Nat
          /\ Len(Append(t, b.line)) = Len(t) + 1
          /\ \A l \in 1..Len(t) : Append(t, b.line)[l] = t[l]
      BY <1>3, <1>4, <1>5, <1>7, <2>2, AppendProperties
    <3>2. \A k \in 1..Len(t) : k \in 1..Len(page'[p].text) /\ page'[p].text[k] = t[k]
      BY <3>1
    <3>3. \A q \in Page \ {p} : page'[q] = page[q]
      BY <1>7
    <3> QED
      BY <3>2, <3>3
  <2> QED
    BY <2>1, <2>2
<1>16. /\ \A i, j \in 1..Len(head) :
            i < j /\ head[i].line # 0 /\ head[j].line # 0 => head[i].line < head[j].line
       /\ \A i \in 1..Len(head) : head[i].line <= tb.line
       /\ \A i \in 1..Len(head), q \in Page : \A k \in 1..Len(page[q].text) :
            head[i].line # 0 => page[q].text[k] < head[i].line
       /\ 1 \in 1..Len(head) /\ \A i \in 1..Len(head) : head[i].line \in Nat
  <2>1. ASSUME NEW i \in 1..Len(head) PROVE head[i].line \in Nat
    <3>1. head[i] \in Batch
      BY <1>1
    <3> QED
      BY <3>1 DEF Batch
  <2>2. 1 \in 1..Len(head)
    BY <1>1
  <2>3. LinesQueued
    BY <1>9
  <2> QED
    BY <2>1, <2>2, <2>3 DEF LinesQueued
<1>17. /\ \A q \in Page : \A k \in 1..Len(page[q].text) : page[q].text[k] \in 1..tb.line
       /\ \A q \in Page : \A k, l \in 1..Len(page[q].text) :
            k < l => page[q].text[k] < page[q].text[l]
       /\ \A q, r \in Page : \A k \in 1..Len(page[q].text), l \in 1..Len(page[r].text) :
            q # r => page[q].text[k] # page[r].text[l]
  BY <1>9 DEF LinesShown
<1>18. LinesQueued'
  <2>1. \A i, j \in 1..Len(head)-1 : i < j /\ head'[i].line # 0 /\ head'[j].line # 0
                                       => head'[i].line < head'[j].line
    BY <1>1, <1>2, <1>16
  <2>2. \A i \in 1..Len(head)-1 : head'[i].line <= tb.line
    BY <1>2, <1>16
  <2>3. ASSUME NEW i \in 1..Len(head)-1, NEW q \in Page, NEW k \in 1..Len(page'[q].text),
               head'[i].line # 0
        PROVE  page'[q].text[k] < head'[i].line
    <3>1. head'[i] = head[i+1] /\ i + 1 \in 1..Len(head) /\ 1 < i + 1
      BY <1>1, <1>2
    <3>2. CASE k \in 1..Len(page[q].text) /\ page'[q].text[k] = page[q].text[k]
      BY <1>16, <2>3, <3>1, <3>2
    <3>3. CASE b.line # 0 /\ page'[q].text[k] = b.line
      BY <1>1, <1>16, <2>3, <3>1, <3>3
    <3> QED
      BY <1>14, <3>2, <3>3
  <2> QED
    BY <1>2, <2>1, <2>2, <2>3 DEF LinesQueued
<1>19. LinesShown'
  <2>1. ASSUME NEW q \in Page, NEW k \in 1..Len(page'[q].text)
        PROVE  page'[q].text[k] \in 1..tb.line
    BY <1>1, <1>3, <1>14, <1>16, <1>17
  <2>2. ASSUME NEW q \in Page, NEW k \in 1..Len(page'[q].text), NEW l \in 1..Len(page'[q].text),
               k < l
        PROVE  page'[q].text[k] < page'[q].text[l]
    <3>1. k \in 1..Len(page[q].text) /\ page'[q].text[k] = page[q].text[k]
      BY <1>14, <2>2
    <3>2. CASE l \in 1..Len(page[q].text) /\ page'[q].text[l] = page[q].text[l]
      BY <1>17, <2>2, <3>1, <3>2
    <3>3. CASE q = p /\ b.line # 0 /\ page'[q].text[l] = b.line
      BY <1>1, <1>16, <3>1, <3>3
    <3> QED
      BY <1>14, <3>2, <3>3
  <2>3. ASSUME NEW q \in Page, NEW r \in Page, NEW k \in 1..Len(page'[q].text),
               NEW l \in 1..Len(page'[r].text), q # r
        PROVE  page'[q].text[k] # page'[r].text[l]
    <3>1. \A n \in Page : \A m \in 1..Len(page[n].text) :
            b.line # 0 => page[n].text[m] # b.line
      <4> SUFFICES ASSUME NEW n \in Page, NEW m \in 1..Len(page[n].text), b.line # 0
                   PROVE  page[n].text[m] # b.line
        OBVIOUS
      <4>1. page[n].text[m] < b.line /\ page[n].text[m] \in Nat
        BY <1>1, <1>16, <1>17
      <4> QED
        BY <1>3, <4>1
    <3>2. CASE k \in 1..Len(page[q].text) /\ page'[q].text[k] = page[q].text[k]
      BY <1>14, <1>17, <2>3, <3>1, <3>2
    <3>3. CASE q = p /\ b.line # 0 /\ page'[q].text[k] = b.line
      BY <1>14, <2>3, <3>1, <3>3
    <3> QED
      BY <1>14, <3>2, <3>3
  <2> QED
    BY <2>1, <2>2, <2>3 DEF LinesShown
<1>20. NoLineMissing'
  <2> SUFFICES ASSUME ~lost, NEW n \in 1..tb.line
               PROVE  \/ \E i \in 1..Len(head)-1 : head'[i].line = n
                      \/ \E q \in Page : \E k \in 1..Len(page'[q].text) : page'[q].text[k] = n
    BY <1>2 DEF NoLineMissing
  <2>1. \/ \E i \in 1..Len(head) : head[i].line = n
        \/ \E q \in Page : \E k \in 1..Len(page[q].text) : page[q].text[k] = n
    BY <1>9 DEF NoLineMissing
  <2>2. ASSUME NEW i \in 1..Len(head), head[i].line = n, i # 1
        PROVE  \E j \in 1..Len(head)-1 : head'[j].line = n
    <3>1. i - 1 \in 1..Len(head)-1 /\ head'[i-1] = head[i]
      BY <1>1, <1>2, <2>2
    <3> QED
      BY <2>2, <3>1
  <2>3. ASSUME b.line = n
        PROVE  \E k \in 1..Len(page'[p].text) : page'[p].text[k] = n
    <3>1. pg.text = Append(page[p].text, n)
      BY <1>1, <1>5, <2>3
    <3>2. Len(page[p].text) + 1 \in 1..Len(pg.text) /\ pg.text[Len(page[p].text) + 1] = n
      BY <1>3, <1>4, <2>3, <3>1, AppendProperties
    <3> QED
      BY <1>7, <3>2
  <2>4. CASE \E i \in 1..Len(head) : head[i].line = n
    <3>1. PICK i \in 1..Len(head) : head[i].line = n
      BY <2>4
    <3>2. CASE i = 1
      BY <1>1, <2>3, <3>1, <3>2
    <3>3. CASE i # 1
      BY <2>2, <3>1, <3>3
    <3> QED
      BY <3>2, <3>3
  <2>5. CASE \E q \in Page : \E k \in 1..Len(page[q].text) : page[q].text[k] = n
    BY <1>15, <2>5
  <2> QED
    BY <2>1, <2>4, <2>5
<1> QED
  BY <1>8, <1>12, <1>13, <1>18, <1>19, <1>20 DEF Shows

\* A batch goes to a page that has left: the others are as they were.
LEMMA ListDropped ==
  ASSUME BoardInv, head # <<>>, head' = Tail(head), UNCHANGED tb, lost' = TRUE,
         \A p \in Page : page'[p].leds = page[p].leds /\ page'[p].text = page[p].text
  PROVE  Shows' /\ head' \in Seq(Batch)
<1>1. /\ head \in Seq(Batch) /\ Len(head) \in Nat \ {0} /\ DOMAIN head = 1..Len(head)
  BY EmptySeq, LenProperties DEF BoardInv, Types
<1>2. /\ head' \in Seq(Batch) /\ Len(head') = Len(head) - 1
      /\ \A i \in 1..Len(head)-1 : head'[i] = head[i+1] /\ i + 1 \in 1..Len(head)
      /\ DOMAIN head' = 1..Len(head)-1
  <2>1. head' \in Seq(Batch) /\ Len(head') = Len(head) - 1
        /\ \A i \in 1..Len(Tail(head)) : Tail(head)[i] = head[i+1]
    BY <1>1, HeadTailProperties
  <2> QED
    BY <1>1, <2>1
<1>3. LedsInOrder /\ LinesQueued /\ LinesShown
  BY DEF BoardInv
<1>4. LedsInOrder'
  <2>1. \A i, j \in 1..Len(head)-1 : i < j /\ head'[i].leds # 0 /\ head'[j].leds # 0
                                       => head'[i].leds < head'[j].leds
    BY <1>1, <1>2, <1>3 DEF LedsInOrder
  <2>2. \A i \in 1..Len(head)-1, q \in Page :
          head'[i].leds # 0 => page'[q].leds < head'[i].leds
    BY <1>1, <1>2, <1>3 DEF LedsInOrder
  <2>3. \A i \in 1..Len(head)-1 : head'[i].leds <= tb.lastLeds
    BY <1>1, <1>2, <1>3 DEF LedsInOrder
  <2>4. \A q \in Page : page'[q].leds <= tb.lastLeds
    BY <1>3 DEF LedsInOrder
  <2> QED
    BY <1>2, <2>1, <2>2, <2>3, <2>4 DEF LedsInOrder
<1>5. LinesQueued'
  <2>1. \A i, j \in 1..Len(head)-1 : i < j /\ head'[i].line # 0 /\ head'[j].line # 0
                                       => head'[i].line < head'[j].line
    BY <1>1, <1>2, <1>3 DEF LinesQueued
  <2>2. \A i \in 1..Len(head)-1 : head'[i].line <= tb.line
    BY <1>2, <1>3 DEF LinesQueued
  <2>3. \A i \in 1..Len(head)-1, q \in Page : \A k \in 1..Len(page'[q].text) :
          head'[i].line # 0 => page'[q].text[k] < head'[i].line
    BY <1>2, <1>3 DEF LinesQueued
  <2> QED
    BY <1>2, <2>1, <2>2, <2>3 DEF LinesQueued
<1>6. LinesShown'
  <2>1. ASSUME NEW p \in Page, NEW k \in 1..Len(page'[p].text)
        PROVE  page'[p].text[k] \in 1..tb'.line
    BY <1>3 DEF LinesShown
  <2>2. ASSUME NEW p \in Page, NEW k \in 1..Len(page'[p].text), NEW l \in 1..Len(page'[p].text),
               k < l
        PROVE  page'[p].text[k] < page'[p].text[l]
    BY <1>3, <2>2 DEF LinesShown
  <2>3. ASSUME NEW p \in Page, NEW q \in Page, NEW k \in 1..Len(page'[p].text),
               NEW l \in 1..Len(page'[q].text), p # q
        PROVE  page'[p].text[k] # page'[q].text[l]
    <3>1. page'[p].text = page[p].text /\ page'[q].text = page[q].text
      OBVIOUS
    <3>2. page[p].text[k] # page[q].text[l]
      BY <1>3, <2>3, <3>1 DEF LinesShown
    <3> QED
      BY <3>1, <3>2
  <2> QED
    BY <2>1, <2>2, <2>3 DEF LinesShown
<1>7. NewestLedsKept' /\ NoLineMissing'
  BY DEF NewestLedsKept, NoLineMissing
<1> QED
  BY <1>2, <1>4, <1>5, <1>6, <1>7 DEF Shows
-----------------------------------------------------------------------------
(* The main loop.                                                          *)

\* Where an update goes, and what the batch then is.
Place == IF fresh /\ head # <<>> THEN Len(head) ELSE Len(head) + 1
With(field, value) == [Before(Place)[Place] EXCEPT ![field] = value]

LEMMA PlaceFacts ==
  ASSUME BoardInv
  PROVE  /\ Place \in Nat \ {0} /\ Len(head) \in Nat /\ Len(head) <= Place
         /\ Place <= Len(head) + 1 /\ Place \in 1..Place
         /\ Before(Place)[Place] = IF fresh /\ head # <<>> THEN head[Len(head)] ELSE EmptyBatch
         /\ Before(Place)[Place] \in Batch /\ Before(Place)[Place].line = 0
<1>1. head \in Seq(Batch) /\ Len(head) \in Nat /\ (head # <<>> => Len(head) # 0)
  BY EmptySeq, LenProperties DEF BoardInv, Types
<1>2. /\ Place \in Nat \ {0} /\ Len(head) <= Place /\ Place <= Len(head) + 1
      /\ Place \in 1..Place /\ Place <= Len(head) <=> fresh /\ head # <<>>
  BY <1>1 DEF Place
<1>3. Before(Place)[Place] = IF fresh /\ head # <<>> THEN head[Len(head)] ELSE EmptyBatch
  BY <1>1, <1>2 DEF Before, Place
<1>4. Before(Place)[Place] \in Batch
  BY <1>2, BeforeFacts
<1>5. Before(Place)[Place].line = 0
  BY <1>3 DEF BoardInv, Batches, EmptyBatch
<1> QED
  BY <1>1, <1>2, <1>3, <1>4, <1>5

LEMMA SendGrows ==
  ASSUME BoardInv, NEW field \in {"leds", "seg", "line"}, NEW value,
         With(field, value) \in Batch,
         head' = IF fresh /\ head # <<>>
                 THEN [head EXCEPT ![Len(head)][field] = value]
                 ELSE Append(head, [EmptyBatch EXCEPT ![field] = value])
  PROVE  Grows(Place, With(field, value))
<1>1. /\ Place \in Nat \ {0} /\ Len(head) \in Nat /\ Len(head) <= Place
      /\ Place <= Len(head) + 1
      /\ Before(Place)[Place] = IF fresh /\ head # <<>> THEN head[Len(head)] ELSE EmptyBatch
      /\ head \in Seq(Batch)
  BY PlaceFacts DEF BoardInv, Types
<1> DEFINE b == With(field, value)
<1>2. b \in Batch
  OBVIOUS
<1>3. CASE fresh /\ head # <<>>
  <2>1. Place = Len(head) /\ b = [head[Len(head)] EXCEPT ![field] = value]
    BY <1>1, <1>3 DEF Place, With
  <2>2. head' = [head EXCEPT ![Len(head)] = b]
    BY <1>3, <2>1
  <2> HIDE DEF b
  <2>3. /\ head' \in Seq(Batch) /\ Len(head') = Len(head)
        /\ \A i \in 1..Len(head) : head'[i] = IF i = Len(head) THEN b ELSE head[i]
    BY <1>1, <1>2, <2>1, <2>2, ExceptSeq
  <2>4. head'[Place] = b /\ \A i \in 1..Place : i # Place => head'[i] = head[i]
    BY <1>1, <2>1, <2>3
  <2> QED
    BY <1>1, <2>1, <2>3, <2>4 DEF Grows, b
<1>4. CASE ~(fresh /\ head # <<>>)
  <2>1. Place = Len(head) + 1 /\ b = [EmptyBatch EXCEPT ![field] = value]
    BY <1>1, <1>4 DEF Place, With
  <2>2. head' = Append(head, b)
    BY <1>4, <2>1
  <2> HIDE DEF b
  <2>3. /\ head' \in Seq(Batch) /\ Len(head') = Len(head) + 1 /\ head'[Len(head) + 1] = b
        /\ \A i \in 1..Len(head) : head'[i] = head[i]
    BY <1>1, <1>2, <2>2, AppendProperties
  <2>4. \A i \in 1..Place : i # Place => head'[i] = head[i]
    BY <1>1, <2>1, <2>3
  <2> QED
    BY <1>1, <2>1, <2>3, <2>4 DEF Grows, b
<1> QED
  BY <1>3, <1>4

LEMMA PollStep ==
  ASSUME BoardInv, Poll
  PROVE  BoardInv'
<1>1. /\ UNCHANGED <<bound, design, sevseg, connected, pending, inputVals, pss, todo, page, up, lost>>
      /\ pc = "run" /\ pc' = "recv"
  BY DEF Poll
<1>2. /\ Types /\ design.leds \in Nat /\ tb.lastLeds \in Nat /\ tb.line \in Nat
      /\ tb.lastLeds <= design.leds /\ tb \in [lastLeds : Nat, line : Nat]
      /\ tb.line <= design.lines
  BY DEF BoardInv, Types, Design
<1>3. InputsBehind'
  BY <1>1, InputsSame
<1>4. CASE tb.lastLeds = design.leds
  <2>1. UNCHANGED <<head, fresh, tb>>
    BY <1>4 DEF Poll
  <2>2. Types'
    BY <1>1, <1>2, <2>1, SameKinds DEF Types
  <2>3. Shows'
    BY <1>1, <2>1, ShowsSame
  <2>4. Batches'
    BY <1>1, <2>1 DEF BoardInv, Batches
  <2> QED
    BY <1>3, <2>2, <2>3, <2>4 DEF BoardInv, Shows
<1>5. CASE tb.lastLeds # design.leds
  <2> DEFINE b == With("leds", design.leds)
  <2>1. /\ vidbo_send("leds", design.leds) /\ tb' = [tb EXCEPT !.lastLeds = design.leds]
    BY <1>5 DEF Poll
  <2>2. tb' \in [lastLeds : Nat, line : Nat] /\ tb'.lastLeds = design.leds /\ tb'.line = tb.line
    BY <1>2, <2>1
  <2>3. b \in Batch /\ b.leds = design.leds /\ b.line = Before(Place)[Place].line
        /\ b.line = 0
    BY <1>2, PlaceFacts DEF With, Batch
  <2>4. Grows(Place, b) /\ Place \in Nat
    BY <2>1, <2>3, SendGrows, PlaceFacts DEF vidbo_send
  <2>5. Newer(Before(Place)[Place], b)
    <3>1. design.leds > tb.lastLeds
      BY <1>2, <1>5
    <3> QED
      BY <2>2, <2>3, <3>1 DEF Newer
  <2> HIDE DEF b
  <2>6. Shows'
    BY <1>1, <2>3, <2>4, <2>5, ListGrows
  <2>7. fresh' = TRUE
    BY <2>1 DEF vidbo_send
  <2>8. Types'
    <3>1. head' \in Seq(Batch)
      BY <2>4 DEF Grows
    <3> QED
      BY <1>1, <1>2, <2>2, <2>7, <3>1, SameKinds DEF Types
  <2>9. Batches'
    BY <1>1, <2>3, <2>4 DEF Batches, Grows
  <2> QED
    BY <1>3, <2>6, <2>8, <2>9 DEF BoardInv, Shows
<1> QED
  BY <1>4, <1>5

LEMMA RecvStep ==
  ASSUME BoardInv, vidbo_recv
  PROVE  BoardInv'
<1>1. /\ UNCHANGED <<bound, tb, sevseg, head, fresh, connected, inputVals, pss, page, up, lost>>
      /\ pc' = "service" /\ todo' = {p \in Page : Reaches(p)} \X {"in", "out"}
  BY DEF vidbo_recv
<1>2. Types /\ InputsBehind /\ design \in Design /\ inputVals \in Input /\ pending \in BOOLEAN
  BY DEF BoardInv, Types
<1>3. Shows'
  BY <1>1, ShowsSame
<1>4. Batches'
  BY <1>1 DEF BoardInv, Batches
<1>5. /\ design' \in Design /\ pending' = FALSE
      /\ \A f \in {"leds", "word", "lines"} : design'[f] = design[f]
      /\ design'.sw = IF pending THEN inputVals ELSE design.sw
  BY <1>2 DEF vidbo_recv, Design
<1>6. Types'
  <2>1. design'.leds = design.leds /\ design'.word = design.word /\ design'.lines = design.lines
    BY <1>5
  <2> QED
    BY <1>1, <1>2, <1>5, <2>1, SameKinds DEF Types
<1>7. InputsBehind'
  <2>1. /\ design'.sw \in {inputVals, design.sw}
        /\ inputVals # NoInput => design'.sw = inputVals
    BY <1>2, <1>5 DEF InputsBehind
  <2>7. \A v \in {inputVals, design.sw} : v # NoInput => v[1] \in Page
    BY <1>2 DEF Design, Input
  <2>8. \A v \in {inputVals, design.sw} :
          v # NoInput => /\ v[2] <= page[v[1]].sent
                         /\ \A i \in 1..Len(up[v[1]]) : v[2] < up[v[1]][i]
    BY <1>2 DEF InputsBehind
  <2>2. \A v \in {inputVals, design'.sw} :
          v # NoInput => /\ v[1] \in Page /\ v[2] <= page[v[1]].sent
                         /\ \A i \in 1..Len(up[v[1]]) : v[2] < up[v[1]][i]
    BY <2>1, <2>7, <2>8
  <2>3. /\ \A p \in Page : \A i \in 1..Len(up[p]) : up[p][i] <= page[p].sent
        /\ \A p \in Page : \A i, j \in 1..Len(up[p]) : i < j => up[p][i] < up[p][j]
    BY <1>2 DEF InputsBehind
  <2>4. design'.sw # NoInput => /\ inputVals # NoInput
                                /\ design'.sw[1] = inputVals[1] => design'.sw[2] <= inputVals[2]
    <3>1. inputVals # NoInput => inputVals[2] \in Nat
      BY <1>2 DEF Input
    <3> QED
      BY <1>2, <2>1, <3>1 DEF InputsBehind
  <2> QED
    BY <1>1, <2>1, <2>2, <2>3, <2>4 DEF InputsBehind
<1> QED
  BY <1>3, <1>4, <1>6, <1>7 DEF BoardInv, Shows

LEMMA ServiceDoneStep ==
  ASSUME BoardInv, ServiceDone
  PROVE  BoardInv'
<1>1. /\ UNCHANGED <<bound, design, tb, sevseg, page, up, lost>>
      /\ UNCHANGED <<head, fresh, connected, pending, inputVals, pss>>
      /\ pc' = "display" /\ todo' = {}
  BY DEF ServiceDone, vidbo
<1>2. Types'
  BY <1>1, SameKinds DEF BoardInv, Types
<1>3. Shows' /\ InputsBehind'
  BY <1>1, ShowsSame, InputsSame
<1>4. Batches'
  BY <1>1 DEF BoardInv, Batches
<1> QED
  BY <1>2, <1>3, <1>4 DEF BoardInv, Shows

LEMMA NotHundredthStep ==
  ASSUME BoardInv, NotHundredth
  PROVE  BoardInv'
<1>1. /\ UNCHANGED <<bound, design, tb, sevseg, head, connected, pending, inputVals, pss, todo>>
      /\ UNCHANGED <<page, up, lost>>
      /\ pc' = "run" /\ fresh' = FALSE
  BY DEF NotHundredth
<1>2. Types'
  BY <1>1, SameKinds DEF BoardInv, Types
<1>3. Shows' /\ InputsBehind'
  BY <1>1, ShowsSame, InputsSame
<1>4. Batches'
  BY <1>1 DEF Batches
<1> QED
  BY <1>2, <1>3, <1>4 DEF BoardInv, Shows

LEMMA SendLineStep ==
  ASSUME BoardInv, SendLine
  PROVE  BoardInv'
<1>1. /\ UNCHANGED <<bound, design, sevseg, connected, pending, inputVals, pss, todo, page, up, lost>>
      /\ pc' = "run" /\ fresh' = FALSE
  BY DEF SendLine
<1>2. /\ Types /\ design.lines \in Nat /\ tb.lastLeds \in Nat /\ tb.line \in Nat
      /\ tb \in [lastLeds : Nat, line : Nat] /\ tb.line <= design.lines
  BY DEF BoardInv, Types, Design
<1>3. InputsBehind'
  BY <1>1, InputsSame
<1>4. Batches'
  BY <1>1 DEF Batches
<1>5. CASE ~(connected /\ tb.line < design.lines)
  <2>1. UNCHANGED <<tb, head>>
    BY <1>5 DEF SendLine
  <2>2. Types'
    BY <1>1, <1>2, <2>1, SameKinds DEF Types
  <2>3. Shows'
    BY <1>1, <2>1, ShowsSame
  <2> QED
    BY <1>3, <1>4, <2>2, <2>3 DEF BoardInv, Shows
<1>6. CASE connected /\ tb.line < design.lines
  <2> DEFINE n == tb.line + 1
             b == With("line", n)
  <2>1. /\ tb' = [tb EXCEPT !.line = n]
        /\ head' = IF fresh /\ head # <<>>
                   THEN [head EXCEPT ![Len(head)]["line"] = n]
                   ELSE Append(head, [EmptyBatch EXCEPT !["line"] = n])
    BY <1>6 DEF SendLine
  <2>2. n \in Nat /\ n = tb.line + 1 /\ n <= design.lines
    BY <1>2, <1>6
  <2> HIDE DEF n
  <2>3. tb' \in [lastLeds : Nat, line : Nat] /\ tb'.lastLeds = tb.lastLeds /\ tb'.line = n
    BY <1>2, <2>1, <2>2
  <2>4. /\ b \in Batch /\ b.line = n /\ b.leds = Before(Place)[Place].leds
        /\ Before(Place)[Place].line = 0
    BY <2>2, PlaceFacts DEF With, Batch
  <2>5. Grows(Place, b) /\ Place \in Nat
    BY <2>1, <2>4, SendGrows, PlaceFacts
  <2>6. Newer(Before(Place)[Place], b)
    BY <2>2, <2>3, <2>4 DEF Newer
  <2> HIDE DEF b
  <2>7. Shows'
    BY <1>1, <2>4, <2>5, <2>6, ListGrows
  <2>8. Types'
    <3>1. head' \in Seq(Batch)
      BY <2>5 DEF Grows
    <3>2. tb'.lastLeds <= design'.leds /\ tb'.line <= design'.lines
      BY <1>1, <1>2, <2>2, <2>3 DEF Types
    <3> QED
      BY <1>1, <1>2, <2>3, <3>1, <3>2, SameKinds DEF Types
  <2> QED
    BY <1>3, <1>4, <2>7, <2>8 DEF BoardInv, Shows
<1> QED
  BY <1>5, <1>6

\* The reader stays one, whatever it sees.
LEMMA TickType ==
  ASSUME Types
  PROVE  sev_seg_tick(sevseg, design.an, design.word[design.an]).reader \in Reader
<1> DEFINE an == design.an
           cathode == design.word[design.an]
           looked == [sevseg EXCEPT !.last = an]
           n == IF sevseg.initial < bound.digits THEN sevseg.initial + 1 ELSE sevseg.initial
           ds == [sevseg.digits EXCEPT ![an] = cathode]
           changed == [looked EXCEPT !.digits[an] = cathode,
                         !.initial = IF @ < bound.digits THEN @ + 1 ELSE @]
<1>1. /\ sevseg \in Reader /\ an \in Digit /\ cathode \in Nibble /\ bound.digits \in Nat
  BY BoardAssumption DEF Types, Design
<1>2. /\ sevseg.digits \in [Digit -> Nibble] /\ sevseg.initial \in 0..bound.digits
  BY <1>1 DEF Reader
<1>3. n \in 0..bound.digits /\ ds \in [Digit -> Nibble]
  BY <1>1, <1>2
<1>4. looked \in Reader
  BY <1>1 DEF Reader
<1>5. changed = [looked EXCEPT !.digits = ds, !.initial = n]
  <2>1. looked.digits = sevseg.digits /\ looked.initial = sevseg.initial
    BY <1>1 DEF Reader
  <2> HIDE DEF looked, an, cathode
  <2> QED
    BY <2>1
<1>6. changed \in Reader
  <2> HIDE DEF changed, looked, ds, n
  <2> QED
    BY <1>3, <1>4, <1>5 DEF Reader
<1> QED
  BY <1>1, <1>4, <1>6 DEF sev_seg_tick

\* Numbers built step by step.
LEMMA NumberRecursion ==
  \A v \in Nat, g \in [Nat -> [Nat -> Nat]] :
    \E f \in [Nat -> Nat] : f[0] = v /\ \A n \in Nat : f[n + 1] = g[n][f[n]]
<1> DEFINE V == Nat
<1> HIDE DEF V
<1>1. \A v \in V, g \in [Nat -> [V -> V]] :
        \E f \in [Nat -> V] : f[0] = v /\ \A n \in Nat : f[n + 1] = g[n][f[n]]
  BY Recursion
<1> QED
  BY <1>1 DEF V

\* The digits make a number: that the recursive function exists, and what it is.
LEMMA DecodedType ==
  ASSUME NEW digits \in [Digit -> Nibble], bound.digits \in Nat \ {0}
  PROVE  decoded_value(digits) \in Nat
<1> DEFINE N == bound.digits
           step == [n \in Nat |-> [v \in Nat |->
                      IF n < N THEN 16 * v + digits[N - (n + 1)] ELSE v]]
<1>1. step \in [Nat -> [Nat -> Nat]]
  <2>1. ASSUME NEW n \in Nat, NEW v \in Nat, n < N PROVE 16 * v + digits[N - (n + 1)] \in Nat
    <3>1. N - (n + 1) \in Digit
      BY <2>1 DEF Digit
    <3>2. digits[N - (n + 1)] \in Nat
      BY <3>1 DEF Nibble
    <3> QED
      BY <3>2
  <2> QED
    BY <2>1
<1>2. PICK f \in [Nat -> Nat] : f[0] = 0 /\ \A n \in Nat : f[n + 1] = step[n][f[n]]
  <2> HIDE DEF step
  <2>1. 0 \in Nat
    OBVIOUS
  <2> QED
    BY <1>1, <2>1, NumberRecursion, Zenon
<1>3. \A n \in 0..(N - 1) : f[n + 1] = 16 * f[n] + digits[N - (n + 1)]
  <2> SUFFICES ASSUME NEW n \in 0..(N - 1)
               PROVE  f[n + 1] = 16 * f[n] + digits[N - (n + 1)]
    OBVIOUS
  <2>1. n \in Nat /\ n < N /\ f[n] \in Nat
    OBVIOUS
  <2> QED
    BY <1>2, <2>1
<1> HIDE DEF step
<1> DEFINE D(g) == [n \in 0..N |-> IF n = 0 THEN 0 ELSE 16 * g[n - 1] + digits[N - n]]
           F == [n \in 0..N |-> f[n]]
           G == CHOOSE g : g = D(g)
<1>4. F = D(F)
  <2>1. ASSUME NEW n \in 0..N
        PROVE  F[n] = IF n = 0 THEN 0 ELSE 16 * F[n - 1] + digits[N - n]
    <3>1. CASE n = 0
      BY <1>2, <3>1
    <3>2. CASE n # 0
      <4>1. n - 1 \in 0..(N - 1) /\ n - 1 \in 0..N /\ (n - 1) + 1 = n
        BY <3>2
      <4>2. f[(n - 1) + 1] = 16 * f[n - 1] + digits[N - ((n - 1) + 1)]
        BY <1>3, <4>1
      <4> QED
        BY <3>2, <4>1, <4>2
    <3> QED
      BY <3>1, <3>2
  <2> QED
    BY <2>1
<1>5. G = D(G)
  <2> HIDE DEF D, F
  <2> QED
    BY <1>4
<1>6. Nat \subseteq {n \in Nat : n <= N => G[n] \in Nat}
  <2> DEFINE S == {n \in Nat : n <= N => G[n] \in Nat}
  <2> HIDE DEF G
  <2>1. 0 \in S
    BY <1>5
  <2>2. ASSUME NEW n \in Nat, n \in S PROVE n + 1 \in S
    <3> SUFFICES ASSUME n + 1 <= N PROVE G[n + 1] \in Nat
      OBVIOUS
    <3>1. G[n] \in Nat /\ n + 1 \in 0..N /\ n + 1 # 0 /\ (n + 1) - 1 = n
      BY <2>2
    <3>2. G[n + 1] = 16 * G[n] + digits[N - (n + 1)]
      BY <1>5, <3>1
    <3>3. digits[N - (n + 1)] \in Nat
      <4>1. N - (n + 1) \in Digit
        <5>1. N \in Nat /\ n \in Nat /\ n + 1 <= N
          OBVIOUS
        <5> HIDE DEF N
        <5>2. N - (n + 1) \in 0..(N - 1)
          BY <5>1
        <5> QED
          BY <5>2 DEF Digit, N
      <4>2. \A d \in Digit : digits[d] \in Nat
        BY DEF Nibble
      <4> QED
        BY <4>1, <4>2
    <3> QED
      BY <3>1, <3>2, <3>3
  <2> HIDE DEF S
  <2>3. Nat \subseteq S
    BY <2>1, <2>2, Induction
  <2> QED
    BY <2>3 DEF S
<1>7. decoded_value(digits) = G[N]
  BY DEF decoded_value
<1> HIDE DEF G
<1>8. N \in {n \in Nat : n <= N => G[n] \in Nat}
  BY <1>6
<1> QED
  BY <1>7, <1>8

LEMMA DisplayStep ==
  ASSUME BoardInv, Display
  PROVE  BoardInv'
<1> DEFINE t == sev_seg_tick(sevseg, design.an, design.word[design.an])
<1>1. /\ UNCHANGED <<bound, tb, connected, pending, inputVals, pss, todo, page, up, lost>>
      /\ pc' = "serial" /\ design' = [design EXCEPT !.polled = TRUE]
      /\ \/ UNCHANGED <<sevseg, head, fresh>>
         \/ sevseg' = t.reader /\ UNCHANGED <<head, fresh>>
         \/ sevseg' = t.reader /\ vidbo_send("seg", decoded_value(t.reader.digits))
  BY DEF Display
<1>2. Types /\ t.reader \in Reader /\ sevseg \in Reader /\ design \in Design
  BY TickType DEF BoardInv, Types
<1>3. decoded_value(t.reader.digits) \in Nat
  <2>1. t.reader.digits \in [Digit -> Nibble] /\ bound.digits \in Nat \ {0}
    BY <1>2, BoardAssumption DEF Reader, Types
  <2> QED
    BY <2>1, DecodedType
<1> HIDE DEF t
<1>4. sevseg' \in Reader
  BY <1>1, <1>2
<1>5. /\ design' \in Design /\ design'.leds = design.leds /\ design'.word = design.word
      /\ design'.lines = design.lines /\ design'.sw = design.sw
  BY <1>1, <1>2 DEF Design
<1>6. InputsBehind'
  BY <1>1, <1>5, InputsSame
<1>7. ASSUME head' \in Seq(Batch), fresh' \in BOOLEAN PROVE Types'
  BY <1>1, <1>2, <1>4, <1>5, <1>7, SameKinds DEF Types
<1>8. CASE UNCHANGED <<head, fresh>>
  <2>1. Types'
    BY <1>2, <1>7, <1>8 DEF Types
  <2>2. Shows'
    BY <1>1, <1>8, ShowsSame
  <2>3. Batches'
    BY <1>1, <1>8 DEF BoardInv, Batches
  <2> QED
    BY <1>6, <2>1, <2>2, <2>3 DEF BoardInv, Shows
<1>9. CASE vidbo_send("seg", decoded_value(t.reader.digits))
  <2> DEFINE w == decoded_value(t.reader.digits)
             b == With("seg", w)
  <2>1. /\ fresh' = TRUE
        /\ head' = IF fresh /\ head # <<>>
                   THEN [head EXCEPT ![Len(head)]["seg"] = w]
                   ELSE Append(head, [EmptyBatch EXCEPT !["seg"] = w])
    BY <1>9 DEF vidbo_send
  <2>2. w \in Nat
    BY <1>3
  <2> HIDE DEF w
  <2>3. /\ b \in Batch /\ b.leds = Before(Place)[Place].leds
        /\ b.line = Before(Place)[Place].line /\ b.line = 0
    BY <2>2, PlaceFacts DEF With, Batch
  <2>4. Grows(Place, b) /\ Place \in Nat
    BY <2>1, <2>3, SendGrows, PlaceFacts
  <2>5. Newer(Before(Place)[Place], b)
    BY <1>1, <2>3 DEF Newer
  <2> HIDE DEF b
  <2>6. Shows'
    BY <1>1, <2>3, <2>4, <2>5, ListGrows
  <2>7. Types'
    BY <1>7, <2>1, <2>4 DEF Grows
  <2>8. Batches'
    BY <1>1, <2>3, <2>4 DEF Batches, Grows
  <2> QED
    BY <1>6, <2>6, <2>7, <2>8 DEF BoardInv, Shows
<1> QED
  BY <1>1, <1>8, <1>9
-----------------------------------------------------------------------------
(* The callbacks and the users.                                            *)

\* A page sends its switches: the newest message joins those on the way.
LEMMA MessageSent ==
  ASSUME BoardInv, NEW p \in Page, NEW s \in PageState, page' = [page EXCEPT ![p] = s],
         s.sent = page[p].sent + 1, up' = [up EXCEPT ![p] = Append(@, page[p].sent + 1)],
         UNCHANGED <<inputVals, pending>>, design'.sw = design.sw
  PROVE  InputsBehind' /\ up' \in [Page -> Seq(Nat)]
<1> DEFINE n == page[p].sent + 1
           t == Append(up[p], n)
<1>1. /\ n \in Nat /\ page[p].sent \in Nat /\ up[p] \in Seq(Nat) /\ up \in [Page -> Seq(Nat)]
      /\ page \in [Page -> PageState] /\ InputsBehind /\ n = page[p].sent + 1
  BY PageType DEF BoardInv, Types
<1>2. up' = [up EXCEPT ![p] = t]
  OBVIOUS
<1> HIDE DEF n
<1>3. /\ t \in Seq(Nat) /\ Len(t) = Len(up[p]) + 1 /\ t[Len(up[p]) + 1] = n
      /\ \A i \in 1..Len(up[p]) : t[i] = up[p][i] /\ Len(up[p]) \in Nat
  BY <1>1, AppendProperties
<1> HIDE DEF t
<1>4. /\ up' \in [Page -> Seq(Nat)] /\ up'[p] = t /\ page'[p] = s /\ s.sent = n
      /\ \A q \in Page : q # p => up'[q] = up[q] /\ page'[q] = page[q]
  BY <1>1, <1>2, <1>3
<1>5. \A i \in 1..Len(t) : t[i] = n \/ (i \in 1..Len(up[p]) /\ t[i] = up[p][i])
  <2>1. Len(up[p]) \in Nat
    BY <1>1
  <2> QED
    BY <1>3, <2>1
<1>6. ASSUME NEW q \in Page, NEW i \in 1..Len(up'[q]) PROVE up'[q][i] <= page'[q].sent
  <2>1. CASE q = p
    <3>1. \A k \in 1..Len(up[p]) : up[p][k] \in Nat /\ up[p][k] <= page[p].sent
      BY <1>1 DEF InputsBehind
    <3> QED
      BY <1>1, <1>4, <1>5, <2>1, <3>1
  <2>2. CASE q # p
    BY <1>1, <1>4, <2>2 DEF InputsBehind
  <2> QED
    BY <2>1, <2>2
<1>7. ASSUME NEW q \in Page, NEW i \in 1..Len(up'[q]), NEW j \in 1..Len(up'[q]), i < j
      PROVE  up'[q][i] < up'[q][j]
  <2>1. CASE q = p
    <3>1. \A k \in 1..Len(up[p]) : up[p][k] \in Nat /\ up[p][k] <= page[p].sent
      BY <1>1 DEF InputsBehind
    <3>2. Len(up[p]) \in Nat /\ i \in 1..Len(up[p])
      <4>1. i \in 1..Len(t) /\ j \in 1..Len(t) /\ Len(up[p]) \in Nat
        BY <1>1, <1>4, <2>1
      <4>2. Len(t) = Len(up[p]) + 1 /\ i < j
        BY <1>3, <1>7
      <4> HIDE DEF t
      <4> QED
        BY <4>1, <4>2
    <3>3. CASE j \in 1..Len(up[p])
      BY <1>1, <1>3, <1>4, <1>7, <2>1, <3>2, <3>3 DEF InputsBehind
    <3>4. CASE ~(j \in 1..Len(up[p]))
      <4>1. up'[q] = t
        BY <1>4, <2>1
      <4>2. t[j] = n
        BY <1>5, <3>4, <4>1
      <4>3. t[i] = up[p][i]
        BY <1>3, <3>2
      <4>4. up[p][i] < n
        BY <1>1, <1>3, <3>1, <3>2
      <4> QED
        BY <4>1, <4>2, <4>3, <4>4
    <3> QED
      BY <3>3, <3>4
  <2>2. CASE q # p
    BY <1>1, <1>4, <1>7, <2>2 DEF InputsBehind
  <2> QED
    BY <2>1, <2>2
<1>8. ASSUME NEW v \in {inputVals', design'.sw}, v # NoInput
      PROVE  /\ v[2] <= page'[v[1]].sent
             /\ \A i \in 1..Len(up'[v[1]]) : v[2] < up'[v[1]][i]
  <2>1. /\ v \in {inputVals, design.sw} /\ v[1] \in Page /\ v[2] \in Nat
    BY <1>8 DEF BoardInv, Types, Design, Input
  <2>2. /\ v[2] <= page[v[1]].sent
        /\ \A i \in 1..Len(up[v[1]]) : v[2] < up[v[1]][i]
    BY <1>1, <1>8, <2>1 DEF InputsBehind
  <2>3. CASE v[1] = p
    <3>1. v[2] < n /\ v[2] <= s.sent
      BY <1>1, <1>4, <2>1, <2>2, <2>3
    <3> QED
      BY <1>4, <1>5, <2>2, <2>3, <3>1
  <2>4. CASE v[1] # p
    BY <1>4, <2>1, <2>2, <2>4
  <2> QED
    BY <2>3, <2>4
<1>9. /\ inputVals' # NoInput /\ ~pending' => design'.sw = inputVals'
      /\ design'.sw # NoInput =>
           /\ inputVals' # NoInput
           /\ design'.sw[1] = inputVals'[1] => design'.sw[2] <= inputVals'[2]
  BY <1>1 DEF InputsBehind
<1> QED
  BY <1>4, <1>6, <1>7, <1>8, <1>9 DEF InputsBehind

\* What a page had on its way is dropped.
LEMMA MessagesDropped ==
  ASSUME BoardInv, NEW p \in Page, NEW s \in PageState, page' = [page EXCEPT ![p] = s],
         s.sent = page[p].sent, up' = [up EXCEPT ![p] = <<>>],
         UNCHANGED <<inputVals, pending>>, design'.sw = design.sw
  PROVE  InputsBehind' /\ up' \in [Page -> Seq(Nat)]
<1>1. /\ up \in [Page -> Seq(Nat)] /\ page \in [Page -> PageState] /\ InputsBehind
      /\ \A v \in {inputVals, design.sw} : v # NoInput => v[1] \in Page
  BY DEF BoardInv, Types, Input, Design
<1>2. /\ up' \in [Page -> Seq(Nat)] /\ up'[p] = <<>> /\ Len(<<>>) = 0
      /\ \A q \in Page : q # p => up'[q] = up[q]
      /\ \A q \in Page : page'[q].sent = page[q].sent
  BY <1>1
<1>3. \A q \in Page : \A i \in 1..Len(up'[q]) : i \in 1..Len(up[q]) /\ up'[q] = up[q]
  BY <1>2
<1> QED
  BY <1>1, <1>2, <1>3 DEF InputsBehind

\* The oldest message on its way becomes the inputs.
LEMMA MessageTaken ==
  ASSUME BoardInv, NEW p \in Page, up[p] # <<>>, inputVals' = <<p, Head(up[p])>>,
         pending' = TRUE, up' = [up EXCEPT ![p] = Tail(@)], UNCHANGED page,
         design'.sw = design.sw
  PROVE  InputsBehind' /\ up' \in [Page -> Seq(Nat)] /\ inputVals' \in Input
<1> DEFINE n == Head(up[p])
           t == Tail(up[p])
<1>1. /\ up[p] \in Seq(Nat) /\ up \in [Page -> Seq(Nat)] /\ InputsBehind
      /\ design.sw \in Input /\ inputVals \in Input
  BY DEF BoardInv, Types, Design
<1>2. up' = [up EXCEPT ![p] = t]
  OBVIOUS
<1>3. /\ n \in Nat /\ n = up[p][1] /\ t \in Seq(Nat) /\ Len(t) = Len(up[p]) - 1
      /\ \A i \in 1..Len(t) : t[i] = up[p][i+1]
      /\ Len(up[p]) \in Nat \ {0}
  BY <1>1, HeadTailProperties, EmptySeq, LenProperties
<1> HIDE DEF n, t
<1>4. /\ up' \in [Page -> Seq(Nat)] /\ up'[p] = t
      /\ \A q \in Page : q # p => up'[q] = up[q]
  BY <1>1, <1>2, <1>3
<1>5. /\ inputVals' \in Input /\ inputVals'[1] = p /\ inputVals'[2] = n /\ inputVals' # NoInput
  <2>1. inputVals' = <<p, n>>
    BY DEF n
  <2> QED
    BY <1>3, <2>1 DEF Input, NoInput
<1>6. \A i \in 1..Len(t) : i + 1 \in 1..Len(up[p]) /\ 1 \in 1..Len(up[p]) /\ 1 < i + 1
  BY <1>3
<1>7. ASSUME NEW q \in Page, NEW i \in 1..Len(up'[q]) PROVE up'[q][i] <= page[q].sent
  <2>1. CASE q = p
    <3>1. i \in 1..Len(t) /\ up'[q][i] = t[i]
      BY <1>4, <2>1
    <3>2. t[i] = up[p][i + 1] /\ i + 1 \in 1..Len(up[p])
      BY <1>3, <1>6, <3>1
    <3>3. up[p][i + 1] <= page[p].sent
      BY <1>1, <3>2 DEF InputsBehind
    <3> QED
      BY <2>1, <3>1, <3>2, <3>3
  <2>2. CASE q # p
    BY <1>1, <1>4, <2>2 DEF InputsBehind
  <2> QED
    BY <2>1, <2>2
<1>8. ASSUME NEW q \in Page, NEW i \in 1..Len(up'[q]), NEW j \in 1..Len(up'[q]), i < j
      PROVE  up'[q][i] < up'[q][j]
  <2>1. CASE q = p
    <3>1. i + 1 \in 1..Len(up[p]) /\ j + 1 \in 1..Len(up[p]) /\ i + 1 < j + 1
      BY <1>4, <1>6, <1>8, <2>1
    <3>2. up[p][i + 1] < up[p][j + 1]
      BY <1>1, <3>1 DEF InputsBehind
    <3>3. up'[q] = t /\ t[i] = up[p][i + 1] /\ t[j] = up[p][j + 1]
      BY <1>3, <1>4, <2>1
    <3> QED
      BY <3>2, <3>3
  <2>2. CASE q # p
    BY <1>1, <1>4, <1>8, <2>2 DEF InputsBehind
  <2> QED
    BY <2>1, <2>2
<1>9. /\ n <= page[p].sent
      /\ \A i \in 1..Len(up'[p]) : n < up'[p][i]
  <2>1. 1 \in 1..Len(up[p])
    BY <1>3
  <2>2. n <= page[p].sent
    BY <1>1, <1>3, <2>1 DEF InputsBehind
  <2>3. \A i \in 1..Len(t) : n < t[i]
    BY <1>1, <1>3, <1>6 DEF InputsBehind
  <2> QED
    BY <1>4, <2>2, <2>3
<1>10. ASSUME design.sw # NoInput
       PROVE  /\ design.sw[2] <= page[design.sw[1]].sent
              /\ \A i \in 1..Len(up'[design.sw[1]]) : design.sw[2] < up'[design.sw[1]][i]
              /\ design.sw[1] = p => design.sw[2] <= n
  <2>1. design.sw[1] \in Page /\ design.sw[2] \in Nat
    BY <1>1, <1>10 DEF Input
  <2>2. /\ design.sw[2] <= page[design.sw[1]].sent
        /\ \A i \in 1..Len(up[design.sw[1]]) : design.sw[2] < up[design.sw[1]][i]
    BY <1>1, <1>10 DEF InputsBehind
  <2>3. CASE design.sw[1] = p
    <3>1. design.sw[2] < n
      BY <1>3, <2>2, <2>3
    <3> QED
      BY <1>3, <1>4, <1>6, <2>1, <2>2, <2>3, <3>1
  <2>4. CASE design.sw[1] # p
    BY <1>4, <2>1, <2>2, <2>4
  <2> QED
    BY <2>3, <2>4
<1>11. \A v \in {inputVals', design'.sw} :
         v # NoInput => /\ v[2] <= page'[v[1]].sent
                        /\ \A i \in 1..Len(up'[v[1]]) : v[2] < up'[v[1]][i]
  BY <1>5, <1>9, <1>10
<1> QED
  BY <1>4, <1>5, <1>7, <1>8, <1>10, <1>11 DEF InputsBehind

LEMMA UserSteps ==
  ASSUME BoardInv, Users
  PROVE  BoardInv'
<1>1. PICK p \in Page : Connect(p) \/ ToggleSwitch(p) \/ Disconnect(p)
  BY DEF Users
<1>2. /\ UNCHANGED <<bound, pc, design, tb, sevseg, todo, lost>>
      /\ UNCHANGED <<head, fresh, connected, pending, inputVals, pss>>
  BY <1>1 DEF Connect, ToggleSwitch, Disconnect, User, vidbo
<1>3. /\ Types /\ page[p] \in PageState /\ page[p].sent \in Nat /\ page[p].toggles \in Nat
      /\ page[p].connects \in Nat
  BY PageType DEF BoardInv
<1>4. Batches'
  BY <1>2 DEF BoardInv, Batches
<1>5. PICK s \in PageState : /\ page' = [page EXCEPT ![p] = s]
                             /\ s.leds = page[p].leds /\ s.text = page[p].text
                             /\ \/ s.sent = page[p].sent /\ up' = up
                                \/ /\ s.sent = page[p].sent + 1
                                   /\ up' = [up EXCEPT ![p] = Append(@, page[p].sent + 1)]
  <2>1. CASE Connect(p)
    <3> DEFINE s == [page[p] EXCEPT !.st = "opening", !.connects = @ + 1]
               n == page[p].connects + 1
    <3>1. s \in PageState /\ s.leds = page[p].leds /\ s.text = page[p].text
          /\ s.sent = page[p].sent
      <4>1. n \in Nat /\ s = [page[p] EXCEPT !.st = "opening", !.connects = n]
        BY <1>3
      <4> HIDE DEF s, n
      <4> QED
        BY <1>3, <4>1 DEF PageState
    <3>2. page' = [page EXCEPT ![p] = s] /\ up' = up
      BY <2>1 DEF Connect, User
    <3> HIDE DEF s
    <3> QED
      BY <3>1, <3>2
  <2>2. CASE ToggleSwitch(p)
    <3> DEFINE s == [page[p] EXCEPT !.sent = @ + 1, !.toggles = @ + 1]
               n == page[p].sent + 1
               m == page[p].toggles + 1
    <3>1. s \in PageState /\ s.leds = page[p].leds /\ s.text = page[p].text
          /\ s.sent = page[p].sent + 1
      <4>1. n \in Nat /\ m \in Nat /\ n = page[p].sent + 1
            /\ s = [page[p] EXCEPT !.sent = n, !.toggles = m]
        BY <1>3
      <4> HIDE DEF s, n, m
      <4> QED
        BY <1>3, <4>1 DEF PageState
    <3>2. page' = [page EXCEPT ![p] = s] /\ up' = [up EXCEPT ![p] = Append(@, page[p].sent + 1)]
      BY <2>2 DEF ToggleSwitch, User
    <3> HIDE DEF s
    <3> QED
      BY <3>1, <3>2
  <2>3. CASE Disconnect(p)
    <3> DEFINE s == [page[p] EXCEPT !.st = "gone"]
    <3>1. s \in PageState /\ s.leds = page[p].leds /\ s.text = page[p].text
          /\ s.sent = page[p].sent
      BY <1>3 DEF PageState
    <3>2. page' = [page EXCEPT ![p] = s] /\ up' = up
      BY <2>3 DEF Disconnect, User
    <3> HIDE DEF s
    <3> QED
      BY <3>1, <3>2
  <2> QED
    BY <1>1, <2>1, <2>2, <2>3
<1>6. /\ page' \in [Page -> PageState] /\ page'[p] = s
      /\ \A q \in Page : page'[q].leds = page[q].leds /\ page'[q].text = page[q].text
      /\ \A q \in Page \ {p} : page'[q] = page[q]
  BY <1>3, <1>5, PageMoves
<1>7. Shows'
  BY <1>2, <1>6, ShowsSame
<1>8. InputsBehind' /\ up' \in [Page -> Seq(Nat)]
  <2>1. CASE s.sent = page[p].sent /\ up' = up
    <3>1. \A q \in Page : page'[q].sent = page[q].sent
      BY <1>6, <2>1
    <3> QED
      BY <1>2, <1>3, <2>1, <3>1, InputsSame DEF Types
  <2>2. CASE /\ s.sent = page[p].sent + 1
             /\ up' = [up EXCEPT ![p] = Append(@, page[p].sent + 1)]
    BY <1>2, <1>5, <2>2, MessageSent
  <2> QED
    BY <1>5, <2>1, <2>2
<1>9. Types'
  BY <1>2, <1>3, <1>6, <1>8, SameKinds DEF Types
<1> QED
  BY <1>4, <1>7, <1>8, <1>9 DEF BoardInv, Shows

LEMMA CallbackFacts ==
  ASSUME BoardInv, NEW p \in Page, NEW way \in {"in", "out"}, Callback(p, way),
         pss' \subseteq Page, connected' \in BOOLEAN, page' \in [Page -> PageState],
         up' \in [Page -> Seq(Nat)], UNCHANGED fresh, pending' \in BOOLEAN,
         inputVals' \in Input, lost' \in BOOLEAN,
         UNCHANGED head \/ (head # <<>> /\ head' = Tail(head))
  PROVE  Types' /\ Batches'
<1>1. UNCHANGED <<bound, pc, design, tb, sevseg>> /\ todo' \subseteq todo
  BY DEF Callback
<1>2. /\ head \in Seq(Batch) /\ Len(head) \in Nat /\ (head # <<>> => Len(head) # 0)
  BY EmptySeq, LenProperties DEF BoardInv, Types
<1>3. CASE UNCHANGED head
  BY <1>1, <1>3, SameKinds DEF BoardInv, Types, Batches
<1>4. CASE head # <<>> /\ head' = Tail(head)
  <2>1. /\ head' \in Seq(Batch) /\ Len(head') = Len(head) - 1
        /\ \A i \in 1..Len(head') : head'[i] = head[i+1]
    BY <1>2, <1>4, HeadTailProperties
  <2>2. Types'
    BY <1>1, <2>1, SameKinds DEF BoardInv, Types
  <2>3. head' # <<>> => head'[Len(head')] = head[Len(head)]
    <3> SUFFICES ASSUME head' # <<>> PROVE head'[Len(head')] = head[Len(head)]
      OBVIOUS
    <3>1. Len(head') \in Nat /\ Len(head') # 0
      BY <2>1, EmptySeq, LenProperties
    <3>2. Len(head') \in 1..Len(head') /\ Len(head') + 1 = Len(head)
      BY <1>2, <2>1, <3>1
    <3> QED
      BY <2>1, <3>2
  <2>4. Batches'
    BY <1>1, <1>4, <2>3 DEF BoardInv, Batches
  <2> QED
    BY <2>2, <2>4
<1> QED
  BY <1>3, <1>4

\* A page that is opened, or found gone.
LEMMA SessionSteps ==
  ASSUME BoardInv, NEW p \in Page, Established(p) \/ Closed(p) \/ Receive(p)
  PROVE  BoardInv'
<1>1. /\ Callback(p, "in") /\ UNCHANGED <<head, fresh, lost, tb>> /\ design' = design
  BY DEF Established, Closed, Receive, Callback
<1>2. /\ Types /\ page[p] \in PageState /\ page[p].sent \in Nat
  BY PageType DEF BoardInv
<1>3. /\ pss \subseteq Page /\ connected \in BOOLEAN /\ pending \in BOOLEAN
      /\ inputVals \in Input /\ lost \in BOOLEAN /\ page \in [Page -> PageState]
  BY <1>2 DEF Types
<1>4. CASE Established(p)
  <2> DEFINE s == [page[p] EXCEPT !.st = "open", !.sent = @ + 1]
             n == page[p].sent + 1
  <2>1. /\ s \in PageState /\ s.leds = page[p].leds /\ s.text = page[p].text
        /\ s.sent = page[p].sent + 1
    <3>1. n \in Nat /\ n = page[p].sent + 1 /\ s = [page[p] EXCEPT !.st = "open", !.sent = n]
      BY <1>2
    <3> HIDE DEF s, n
    <3> QED
      BY <1>2, <3>1 DEF PageState
  <2>2. page' = [page EXCEPT ![p] = s] /\ up' = [up EXCEPT ![p] = Append(@, page[p].sent + 1)]
        /\ pss' \subseteq Page /\ connected' = TRUE /\ UNCHANGED <<pending, inputVals>>
    BY <1>3, <1>4 DEF Established
  <2> HIDE DEF s
  <2>3. InputsBehind' /\ up' \in [Page -> Seq(Nat)]
    BY <1>1, <2>1, <2>2, MessageSent
  <2>4. /\ page' \in [Page -> PageState]
        /\ \A q \in Page : page'[q].leds = page[q].leds /\ page'[q].text = page[q].text
    BY <1>2, <2>1, <2>2, PageMoves
  <2>5. Shows'
    BY <1>1, <2>4, ShowsSame
  <2>6. Types' /\ Batches'
    BY <1>1, <1>3, <2>2, <2>3, <2>4, CallbackFacts
  <2> QED
    BY <2>3, <2>5, <2>6 DEF BoardInv, Shows
<1>5. CASE Closed(p)
  <2> DEFINE s == [page[p] EXCEPT !.st = "off"]
  <2>1. /\ s \in PageState /\ s.leds = page[p].leds /\ s.text = page[p].text
        /\ s.sent = page[p].sent
    BY <1>2 DEF PageState
  <2>2. page' = [page EXCEPT ![p] = s] /\ up' = [up EXCEPT ![p] = <<>>]
        /\ pss' \subseteq Page /\ connected' = FALSE /\ UNCHANGED <<pending, inputVals>>
    BY <1>3, <1>5 DEF Closed, Leave
  <2> HIDE DEF s
  <2>3. InputsBehind' /\ up' \in [Page -> Seq(Nat)]
    BY <1>1, <2>1, <2>2, MessagesDropped
  <2>4. /\ page' \in [Page -> PageState]
        /\ \A q \in Page : page'[q].leds = page[q].leds /\ page'[q].text = page[q].text
    BY <1>2, <2>1, <2>2, PageMoves
  <2>5. Shows'
    BY <1>1, <2>4, ShowsSame
  <2>6. Types' /\ Batches'
    BY <1>1, <1>3, <2>2, <2>3, <2>4, CallbackFacts
  <2> QED
    BY <2>3, <2>5, <2>6 DEF BoardInv, Shows
<1>6. CASE Receive(p)
  <2>1. /\ up[p] # <<>> /\ inputVals' = <<p, Head(up[p])>> /\ pending' = TRUE
        /\ up' = [up EXCEPT ![p] = Tail(@)] /\ UNCHANGED <<connected, pss, page>>
    BY <1>6 DEF Receive
  <2>2. InputsBehind' /\ up' \in [Page -> Seq(Nat)] /\ inputVals' \in Input
    BY <1>1, <2>1, MessageTaken
  <2>3. Shows'
    BY <1>1, <2>1, ShowsSame
  <2>4. Types' /\ Batches'
    BY <1>1, <1>3, <2>1, <2>2, CallbackFacts
  <2> QED
    BY <2>2, <2>3, <2>4 DEF BoardInv, Shows
<1> QED
  BY <1>4, <1>5, <1>6

\* A session that can write takes the oldest batch.
LEMMA WriteableStep ==
  ASSUME BoardInv, NEW p \in Page, Writeable(p)
  PROVE  BoardInv'
<1>1. /\ Callback(p, "out") /\ UNCHANGED <<fresh, pending, inputVals, tb>> /\ design' = design
  BY DEF Writeable, Callback
<1>2. /\ Types /\ page[p] \in PageState /\ page[p].sent \in Nat
  BY PageType DEF BoardInv
<1>3. /\ pss \subseteq Page /\ connected \in BOOLEAN /\ pending \in BOOLEAN
      /\ inputVals \in Input /\ lost \in BOOLEAN /\ page \in [Page -> PageState]
      /\ up \in [Page -> Seq(Nat)]
  BY <1>2 DEF Types
<1>4. CASE UNCHANGED <<head, connected, pss, page, up, lost>>
  <2>1. Shows' /\ InputsBehind'
    BY <1>1, <1>4, ShowsSame, InputsSame
  <2>2. Types' /\ Batches'
    BY <1>1, <1>3, <1>4, CallbackFacts
  <2> QED
    BY <2>1, <2>2 DEF BoardInv, Shows
<1>5. CASE /\ head # <<>> /\ head' = Tail(head)
           /\ page' = [page EXCEPT ![p] = Shown(@, Head(head))]
           /\ UNCHANGED <<connected, pss, up, lost>>
  <2>1. page' = [page EXCEPT ![p] = Shown(page[p], Head(head))]
    BY <1>5
  <2>2. /\ Shows' /\ page' \in [Page -> PageState]
        /\ \A q \in Page : page'[q].sent = page[q].sent
    BY <1>1, <1>5, <2>1, ListPopped
  <2>3. InputsBehind'
    BY <1>1, <1>5, <2>2, InputsSame
  <2>4. Types' /\ Batches'
    BY <1>1, <1>3, <1>5, <2>2, CallbackFacts
  <2> QED
    BY <2>2, <2>3, <2>4 DEF BoardInv, Shows
<1>6. CASE /\ head # <<>> /\ head' = Tail(head) /\ lost' = TRUE
           /\ UNCHANGED <<connected, pss, page, up>>
  <2>1. Shows' /\ InputsBehind'
    BY <1>1, <1>6, ListDropped, InputsSame
  <2>2. Types' /\ Batches'
    BY <1>1, <1>3, <1>6, CallbackFacts
  <2> QED
    BY <2>1, <2>2 DEF BoardInv, Shows
<1>7. CASE head # <<>> /\ head' = Tail(head) /\ lost' = TRUE /\ Leave(p)
  <2> DEFINE s == [page[p] EXCEPT !.st = "off"]
  <2>1. /\ s \in PageState /\ s.leds = page[p].leds /\ s.text = page[p].text
        /\ s.sent = page[p].sent
    BY <1>2 DEF PageState
  <2>2. page' = [page EXCEPT ![p] = s] /\ up' = [up EXCEPT ![p] = <<>>]
        /\ pss' \subseteq Page /\ connected' = FALSE
    BY <1>3, <1>7 DEF Leave
  <2> HIDE DEF s
  <2>3. InputsBehind' /\ up' \in [Page -> Seq(Nat)]
    BY <1>1, <2>1, <2>2, MessagesDropped
  <2>4. /\ page' \in [Page -> PageState]
        /\ \A q \in Page : page'[q].leds = page[q].leds /\ page'[q].text = page[q].text
    BY <1>2, <2>1, <2>2, PageMoves
  <2>5. Shows'
    BY <1>1, <1>7, <2>4, ListDropped
  <2>6. Types' /\ Batches'
    BY <1>1, <1>3, <1>7, <2>2, <2>3, <2>4, CallbackFacts
  <2> QED
    BY <2>3, <2>5, <2>6 DEF BoardInv, Shows
<1> QED
  BY <1>4, <1>5, <1>6, <1>7 DEF Writeable
-----------------------------------------------------------------------------
(* The theorems.                                                           *)

LEMMA BoardInvInit == Init => BoardInv
<1> SUFFICES ASSUME Init PROVE BoardInv
  OBVIOUS
<1>1. PICK w \in bound.words :
        design = [leds |-> 0, word |-> w, words |-> 0, an |-> 0, polled |-> FALSE,
                  lines |-> 0, sw |-> NoInput]
  BY DEF Init
<1>2. /\ bound \in Bounds /\ bound.digits \in Nat \ {0} /\ w \in [Digit -> Nibble]
      /\ bound.leds \in Nat /\ bound.lines \in Nat
  <2>1. bound \in Bounds
    BY DEF Init
  <2> QED
    BY <2>1, BoardAssumption DEF Digit
<1>3. /\ tb = [lastLeds |-> 0, line |-> 0] /\ pc = "run"
      /\ sevseg = [last |-> -1, digits |-> [d \in Digit |-> 8], initial |-> 0]
      /\ head = <<>> /\ fresh = FALSE /\ connected = FALSE /\ pending = FALSE
      /\ inputVals = NoInput /\ pss = {} /\ todo = {} /\ lost = FALSE
      /\ up = [p \in Page |-> <<>>]
      /\ page = [p \in Page |-> [st |-> "off", leds |-> 0, seg |-> Dark, text |-> <<>>,
                                 sent |-> 0, toggles |-> 0, connects |-> 0]]
  BY DEF Init
<1>4. /\ head \in Seq(Batch) /\ Len(head) = 0 /\ DOMAIN head = {} /\ 1..0 = {}
      /\ \A p \in Page : /\ page[p].leds = 0 /\ page[p].text = <<>> /\ Len(page[p].text) = 0
                         /\ up[p] = <<>> /\ Len(up[p]) = 0
  BY <1>3
<1>5. Types
  <2>1. design \in Design
    BY <1>1, <1>2 DEF Design, Input, Digit
  <2>2. sevseg \in Reader
    BY <1>2, <1>3 DEF Reader, Nibble
  <2>3. page \in [Page -> PageState] /\ up \in [Page -> Seq(Nat)]
    BY <1>3 DEF PageState, Positions, Dark
  <2>4. design.word \in bound.words /\ design.leds <= bound.leds /\ design.lines <= bound.lines
    BY <1>1, <1>2
  <2>5. /\ tb \in [lastLeds : Nat, line : Nat]
        /\ tb.lastLeds <= design.leds /\ tb.line <= design.lines
    BY <1>1, <1>3
  <2> QED
    BY <1>2, <1>3, <1>4, <2>1, <2>2, <2>3, <2>4, <2>5 DEF Types, Input
<1>6. Batches /\ LedsInOrder /\ NewestLedsKept
  BY <1>3, <1>4 DEF Batches, LedsInOrder, NewestLedsKept
<1>7. LinesQueued /\ LinesShown /\ NoLineMissing
  BY <1>3, <1>4 DEF LinesQueued, LinesShown, NoLineMissing
<1>8. InputsBehind
  BY <1>1, <1>3, <1>4 DEF InputsBehind
<1> QED
  BY <1>5, <1>6, <1>7, <1>8 DEF BoardInv

LEMMA BoardInvNext == BoardInv /\ [Next]_vars => BoardInv'
<1> SUFFICES ASSUME BoardInv, [Next]_vars PROVE BoardInv'
  OBVIOUS
<1>1. CASE MainLoop
  <2>1. ASSUME NEW p \in Page, Established(p) \/ Closed(p) \/ Receive(p) \/ Writeable(p)
        PROVE  BoardInv'
    BY <2>1, SessionSteps, WriteableStep
  <2>2. Callbacks => BoardInv'
    BY <2>1 DEF Callbacks
  <2> QED
    BY <1>1, <2>2, PollStep, RecvStep, ServiceDoneStep, DisplayStep, SendLineStep,
       NotHundredthStep DEF MainLoop
<1>2. CASE Software \/ NextDigit
  BY <1>2, SoftwareStep
<1>3. CASE Users
  BY <1>3, UserSteps
<1>4. CASE UNCHANGED vars
  <2>1. /\ UNCHANGED <<bound, pc, design, tb, sevseg, head, fresh, connected, pending>>
        /\ UNCHANGED <<inputVals, pss, todo, page, up, lost>>
    BY <1>4 DEF vars, vidbo
  <2>2. Types'
    BY <2>1, SameKinds DEF BoardInv, Types
  <2>3. Shows' /\ InputsBehind'
    BY <2>1, ShowsSame, InputsSame
  <2>4. Batches'
    BY <2>1 DEF BoardInv, Batches
  <2> QED
    BY <2>2, <2>3, <2>4 DEF BoardInv, Shows
<1> QED
  BY <1>1, <1>2, <1>3, <1>4 DEF Next

\* Of every run of the main loop with its callbacks (tb.cpp, vidbo.c): the
\* list is in the order of what the design did, ahead of what every page
\* shows, and inputs on their way are newer than those received.
THEOREM BoardInvAlways == Spec => []BoardInv
<1> QED
  BY BoardInvInit, BoardInvNext, PTL DEF Spec

\* No page ever goes back to older LEDs, and the newest are shown or wait
\* (vidbo_send and the writeable callback of ws_cb), however many pages share
\* the batches.
THEOREM LedsStayInOrder == Spec => []Inv
<1> QED
  BY BoardInvAlways, SaysInv, PTL

\* Each line of the serial port is shown once, in order, or waits, unless a
\* batch was written to a page that had left (the main loop of tb.cpp, ws_cb).
THEOREM LinesAreShownOnce == Spec => []LinesShownOnce
<1> QED
  BY BoardInvAlways, SaysLines, PTL

\* The pins never go back to an older message of a page (the receive callback
\* and vidbo_recv).
THEOREM InputsStayInOrder == Spec => []InputsInOrder
<1> QED
  BY BoardInvAlways, SaysInputs, PTL
=============================================================================
