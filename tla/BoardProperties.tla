-------------------------- MODULE BoardProperties --------------------------
(***************************************************************************)
(* What the virtual board must do: the properties of Board.                *)
(***************************************************************************)
EXTENDS Board, FiniteSetsExt

Number(max) == 0..max

\* Type invariant.
TypeOK ==
  /\ pc \in {"run", "recv", "service", "display", "serial"}
  /\ bound \in Bounds
  /\ design.leds \in Number(bound.leds) /\ design.lines \in Number(bound.lines)
  /\ design.word \in bound.words /\ design.an \in Digit
  /\ tb \in [lastLeds : Number(bound.leds), line : Number(bound.lines)]
  /\ sevseg.last \in Digit \cup {-1} /\ sevseg.initial \in Number(bound.digits)
  /\ \A i \in DOMAIN head : head[i].leds \in Number(bound.leds)
  /\ {connected, pending, fresh, lost} \subseteq BOOLEAN
  /\ pss \subseteq Page /\ todo \subseteq Page \X {"in", "out"}
  /\ \A p \in Page : page[p].st \in {"off", "opening", "open", "gone"}

\* A page never shows LEDs older than ones it has shown, whichever sessions
\* share the batches: the list is in the order of the changes, every page is
\* behind all of it, and it never runs ahead of last_leds.
LedsInOrder ==
  /\ \A i, j \in DOMAIN head :
       i < j /\ head[i].leds # 0 /\ head[j].leds # 0 => head[i].leds < head[j].leds
  /\ \A i \in DOMAIN head, p \in Page :
       head[i].leds # 0 => page[p].leds < head[i].leds
  /\ \A i \in DOMAIN head : head[i].leds <= tb.lastLeds
  /\ \A p \in Page : page[p].leds <= tb.lastLeds

Queued == {head[i].line : i \in DOMAIN head} \ {0}
TextOf(p) == {page[p].text[i] : i \in DOMAIN page[p].text}

\* Each line taken from the UART reader is shown once, on one page, after the
\* earlier lines of that page, or waits in the list, although a page may
\* leave before the server notices; only a batch written to such a page is
\* lost.
LinesShownOnce ==
  /\ ~lost => 1..tb.line = Queued \cup UNION {TextOf(p) : p \in Page}
  /\ \A p, q \in Page : p # q => TextOf(p) \cap TextOf(q) = {}
  /\ \A p \in Page : /\ TextOf(p) \cap Queued = {}
                     /\ \A i, j \in DOMAIN page[p].text :
                          i < j => page[p].text[i] < page[p].text[j]

\* The newest LEDs are shown on some page or waiting, unless a batch was lost.
NewestLedsKept ==
  ~lost /\ tb.lastLeds # 0 =>
    \/ \E p \in Page : page[p].leds = tb.lastLeds
    \/ \E i \in DOMAIN head : head[i].leds = tb.lastLeds

\* The type invariant and what holds of the LEDs at any moment.
Inv == TypeOK /\ LedsInOrder /\ NewestLedsKept

\* The pins never take a message of a page and later an older one of it:
\* what is on its way is newer than the values received, and those are newer
\* than (or the same as) what the pins have, until the pins have them.
InputsInOrder ==
  /\ \A p \in Page : \A i, j \in DOMAIN up[p] : i < j => up[p][i] < up[p][j]
  /\ inputVals # NoInput =>
       \A i \in DOMAIN up[inputVals[1]] : inputVals[2] < up[inputVals[1]][i]
  /\ inputVals # NoInput /\ ~pending => design.sw = inputVals
  /\ design.sw # NoInput => /\ inputVals # NoInput
                            /\ design.sw[1] = inputVals[1] => design.sw[2] <= inputVals[2]

\* p connected once, stays, and no other page ever does.
OnlyPage(p) == /\ page[p].st = "open" /\ page[p].connects = 1
               /\ \A q \in Page \ {p} : page[q].connects = 0

\* What the digits of a word make, as wb_sev_seg.v lights them.
WordValue(word) == MapThenSumSet(LAMBDA d : word[d] * 16^d, Digit)

\* The page reads n in decimal, on as many positions as the display has.
ReadsDecimal(p, n) ==
  \A i \in Position : page[p].seg[i] = {(n \div 10^(bound.digits - i)) % 10}

\* What has a decimal numeral on the display's positions, and no sign.
Fits(n) == n < 10^bound.digits /\ n < 16^bound.digits \div 2

\* While the flag connected stays up, whoever comes and goes, the list is
\* emptied, the loop takes every line and change of the LEDs (main, tb.cpp) and
\* the reader gets to know the word.  If one page alone connects, and stays, the
\* LEDs of the design and every line come to stand on it and, once as many
\* changes of digits were seen as there are digits, the word as a decimal
\* number, if that fits.  Lines are those whose message fits json_buf
\* (vidbo.c:39).
OutputsReachPage ==
  /\ <>[]connected =>
       <>[](/\ head = <<>> /\ tb.lastLeds = design.leds /\ tb.line = design.lines
            /\ sevseg.digits = design.word)
  /\ \A p \in Page :
       <>[]OnlyPage(p) =>
         /\ <>[](page[p].leds = design.leds)
         /\ <>[](Len(page[p].text) = design.lines)
         /\ <>[](sevseg.initial = bound.digits /\ Fits(WordValue(design.word))) =>
              <>[]ReadsDecimal(p, WordValue(design.word))

\* The switches of the page come to stand on the pins.
InputsReachDesign ==
  \A p \in Page : <>[]OnlyPage(p) => <>[](design.sw = <<p, page[p].sent>>)
-----------------------------------------------------------------------------
(* What does not hold: Board.cfg with one of these in place of its own     *)
(* properties ends with the counterexample.                                *)

\* README.md:25: the virtual board is used "the same as" the physical one.
\* The page shows, from the left, the digits that wb_sev_seg.v lights.
DisplaysAgree ==
  \A p \in Page :
    <>[](OnlyPage(p) /\ sevseg.initial = bound.digits) =>
      <>[](\A i \in Position : page[p].seg[i] = {design.word[bound.digits - i]})

\* Every line is taken from the UART reader (main, tb.cpp) while a page stays.
LinesTakenWhileOpen ==
  \A p \in Page : <>[](page[p].st = "open") => <>[](tb.line = design.lines)
=============================================================================
