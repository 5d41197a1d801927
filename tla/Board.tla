------------------------------- MODULE Board -------------------------------
(***************************************************************************)
(* The virtual board (src/vidbo): the simulated design, the main loop of   *)
(* tb.cpp that polls it, the seven-segment reader, the update list and the *)
(* websocket callbacks of vidbo.c, and the pages that show the board.      *)
(*                                                                         *)
(* Values are numbered in the order they arise, 0 for none: the k-th value *)
(* of the LEDs, the k-th line of the serial port, the k-th message of a    *)
(* page with its switches.  A line is one whose message fits json_buf.     *)
(* Updates of one simulation time form a batch.  The pattern of a digit is *)
(* the nibble it stands for: wb_sev_seg.v has one for each.                *)
(***************************************************************************)
EXTENDS Integers, Sequences, FiniteSets

CONSTANTS
  Page,                                 \* browser pages
  Bounds                                \* scenarios: how much may happen

\* A scenario bounds the pages that take part, the connections each makes and
\* the switches it toggles, the changes of the LEDs, the lines printed, and
\* the digits of the display, its words, lowest digit first, and how often it
\* changes.
Nibble == 0..15

ASSUME BoardAssumption ==
  \A b \in Bounds :
    /\ b.digits \in Nat \ {0}
    /\ b.pages \subseteq Page /\ b.words \subseteq [0..b.digits-1 -> Nibble]
    /\ {b.connects, b.toggles, b.leds, b.lines, b.changes} \subseteq Nat

VARIABLES
  bound,      \* the scenario
  pc,         \* where the main loop is: run, recv, service, tail
  design,     \* the design's pins and what software did to them so far
  tb,         \* tb.cpp: last_leds, lines taken from the UART reader
  sevseg,     \* SevenSegment: m_last_segment, m_digits, m_initial_decoder
  head,       \* the update list, as batches of one time each
  fresh,      \* the last batch has the current time
  connected, pending, inputVals,        \* the flags and inputs of vidbo.c
  pss,        \* live sessions
  todo,       \* sessions this service call has still to look at, and what for
  page,       \* what each page shows and did
  up,         \* messages on their way from each page
  lost        \* history: a batch went to a page that had left

vidbo == <<head, fresh, connected, pending, inputVals, pss>>
vars == <<bound, pc, design, tb, sevseg, vidbo, todo, page, up, lost>>

Digit == 0..bound.digits-1
Position == 1..bound.digits             \* of the page's display, from the left

Dark == [i \in Position |-> {}]         \* a position shows one numeral or none
NoNumber == -1
NoInput == <<>>
EmptyBatch == [leds |-> 0, seg |-> NoNumber, line |-> 0]

Init ==
  /\ bound \in Bounds
  /\ pc = "run"
  /\ \E w \in bound.words :
       design = [leds |-> 0, word |-> w, words |-> 0, an |-> 0, polled |-> FALSE,
                 lines |-> 0, sw |-> NoInput]
  /\ tb = [lastLeds |-> 0, line |-> 0]
  /\ sevseg = [last |-> -1, digits |-> [d \in Digit |-> 8], initial |-> 0]
  /\ head = <<>> /\ fresh = FALSE
  /\ connected = FALSE /\ pending = FALSE /\ inputVals = NoInput
  /\ pss = {} /\ todo = {}
  /\ page = [p \in Page |-> [st |-> "off", leds |-> 0, seg |-> Dark, text |-> <<>>,
                             sent |-> 0, toggles |-> 0, connects |-> 0]]
  /\ up = [p \in Page |-> <<>>]
  /\ lost = FALSE
-----------------------------------------------------------------------------
(* The design between two polls.                                           *)

DesignStep(d) ==
  /\ pc = "run" /\ design' = d
  /\ UNCHANGED <<bound, pc, tb, sevseg, vidbo, todo, page, up, lost>>

ChangeLeds == /\ design.leds < bound.leds
              /\ DesignStep([design EXCEPT !.leds = @ + 1])

WriteDigits == /\ design.words < bound.changes
               /\ \E w \in bound.words : DesignStep([design EXCEPT !.word = w, !.words = @ + 1])

PrintLine == /\ design.lines < bound.lines
             /\ DesignStep([design EXCEPT !.lines = @ + 1])

\* wb_sev_seg.v lights the next digit; each one lasts many polls.
NextDigit == /\ design.polled
             /\ DesignStep([design EXCEPT !.an = (@ + 1) % bound.digits,
                                          !.polled = FALSE])
-----------------------------------------------------------------------------
(* tb.cpp: one poll of the main loop, every 10000 turns.                   *)

Last(s) == s[Len(s)]

\* Mutation: updates are pushed on the list's head.
vidbo_push(field, value) ==
  /\ head' = <<[EmptyBatch EXCEPT ![field] = value]>> \o head
  /\ fresh' = TRUE

\* vidbo_send: the update joins the list; same time, same batch.
vidbo_send(field, value) ==
  /\ head' = IF fresh /\ head # <<>>
             THEN [head EXCEPT ![Len(head)][field] = value]
             ELSE Append(head, [EmptyBatch EXCEPT ![field] = value])
  /\ fresh' = TRUE

\* All LEDs are sent when one has changed since the last poll.
Poll ==
  /\ pc = "run"
  /\ pc' = "recv"
  /\ IF tb.lastLeds = design.leds THEN UNCHANGED <<head, fresh, tb>>
     ELSE /\ vidbo_send("leds", design.leds)
          /\ tb' = [tb EXCEPT !.lastLeds = design.leds]
  /\ UNCHANGED <<bound, design, sevseg, connected, pending, inputVals, pss, todo, page, up, lost>>

Reaches(p) == page[p].st \in {"opening", "open", "gone"}

\* vidbo_recv: the inputs of the last service call reach the pins, then lws
\* looks at every session: at what its page did, and whether it can write, as
\* each live one has asked to.
vidbo_recv ==
  /\ pc = "recv"
  /\ IF pending THEN design' = [design EXCEPT !.sw = inputVals] /\ pending' = FALSE
     ELSE UNCHANGED <<bound, design, pending>>
  /\ todo' = {p \in Page : Reaches(p)} \X {"in", "out"}
  /\ pc' = "service"
  /\ UNCHANGED <<bound, tb, sevseg, head, fresh, connected, inputVals, pss, page, up, lost>>
-----------------------------------------------------------------------------
(* ws_cb: the callbacks of a service call, in any order.                   *)

Callback(p, way) ==
  /\ pc = "service" /\ <<p, way>> \in todo
  /\ todo' = todo \ {<<p, way>>}
  /\ UNCHANGED <<bound, pc, design, tb, sevseg>>

\* The page sends the state of its switches as soon as it is connected.
Established(p) ==
  /\ Callback(p, "in")
  /\ page[p].st = "opening"
  /\ pss' = pss \cup {p}
  /\ connected' = TRUE
  /\ page' = [page EXCEPT ![p].st = "open", ![p].sent = @ + 1]
  /\ up' = [up EXCEPT ![p] = Append(@, page[p].sent + 1)]
  /\ UNCHANGED <<head, fresh, pending, inputVals, lost>>

Leave(p) ==
  /\ pss' = pss \ {p}
  /\ connected' = FALSE
  /\ up' = [up EXCEPT ![p] = <<>>]
  /\ page' = [page EXCEPT ![p].st = "off"]

\* What the page still had on its way is dropped with the session.
Closed(p) ==
  /\ Callback(p, "in")
  /\ page[p].st = "gone"
  /\ Leave(p)
  /\ UNCHANGED <<head, fresh, pending, inputVals, lost>>

Receive(p) ==
  /\ Callback(p, "in")
  /\ p \in pss /\ up[p] # <<>>
  /\ inputVals' = <<p, Head(up[p])>>
  /\ pending' = TRUE
  /\ up' = [up EXCEPT ![p] = Tail(@)]
  /\ UNCHANGED <<head, fresh, connected, pss, page, lost>>

\* The number is printed with %d: as a signed one of the digits' bits.
printed(number) ==
  IF number < 16^bound.digits \div 2 THEN number ELSE number - 16^bound.digits

Minus == -1

\* nexys-a7.html writes the value in decimal, with leading zeros, and gives one
\* character to each position; those of a longer numeral that are left over
\* are not shown.  A minus leaves its position dark and throws, so that the
\* positions behind it stay as they are.
setValueToDisplay(seg, value) ==
  LET numeral[n \in Nat] == IF n < 10 THEN <<n>> ELSE Append(numeral[n \div 10], n % 10)
      text   == IF value < 0 THEN <<Minus>> \o numeral[-value] ELSE numeral[value]
      padded == IF Len(text) >= bound.digits THEN text
                ELSE [i \in 1..bound.digits-Len(text) |-> 0] \o text
  IN  [i \in Position |-> IF \E j \in 1..i-1 : padded[j] = Minus THEN seg[i]
                          ELSE {padded[i]} \cap 0..9]

\* onmessage: the LEDs, the text, the display.
Shown(pg, batch) ==
  [pg EXCEPT !.leds = IF batch.leds = 0 THEN @ ELSE batch.leds,
             !.text = IF batch.line = 0 THEN @ ELSE Append(@, batch.line),
             !.seg  = IF batch.seg = NoNumber THEN @
                      ELSE setValueToDisplay(@, printed(batch.seg))]

\* The oldest batch leaves the list for this session alone; a session whose
\* page has left loses it, and lws may find out by the failed write.
Writeable(p) ==
  /\ Callback(p, "out")
  /\ p \in pss
  /\ UNCHANGED <<fresh, pending, inputVals>>
  /\ \/ head = <<>> /\ UNCHANGED <<head, connected, pss, page, up, lost>>
     \/ /\ head # <<>> /\ page[p].st = "open"
        /\ head' = Tail(head)
        /\ page' = [page EXCEPT ![p] = Shown(@, Head(head))]
        /\ UNCHANGED <<connected, pss, up, lost>>
     \/ /\ head # <<>> /\ page[p].st = "gone"
        /\ head' = Tail(head) /\ lost' = TRUE
        /\ UNCHANGED <<connected, pss, page, up>> \/ Leave(p)

Busy(p) == \/ <<p, "in">> \in todo /\ (page[p].st \in {"opening", "gone"} \/ up[p] # <<>>)
           \/ <<p, "out">> \in todo /\ p \in pss

\* Mutation: what came in is marked as taken after the service call.
ServiceDoneTaken ==
  /\ pc = "service" /\ \A p \in Page : ~Busy(p)
  /\ pc' = "display" /\ todo' = {} /\ pending' = FALSE
  /\ UNCHANGED <<bound, design, tb, sevseg, head, fresh, connected, inputVals, pss, page, up, lost>>

ServiceDone ==
  /\ pc = "service" /\ \A p \in Page : ~Busy(p)
  /\ pc' = "display" /\ todo' = {}
  /\ UNCHANGED <<bound, design, tb, sevseg, vidbo, page, up, lost>>
-----------------------------------------------------------------------------
(* seven_segment.cpp: the digit that is lit is looked at once per phase.   *)

\* Mutation: the number is sent when the count is reached, and not again.
sev_seg_tick_once(reader, an, cathode) ==
  LET looked  == [reader EXCEPT !.last = an]
      changed == [looked EXCEPT !.digits[an] = cathode,
                    !.initial = IF @ < bound.digits THEN @ + 1 ELSE @]
  IN  CASE an = reader.last -> [reader |-> reader, send |-> FALSE]
        [] an # reader.last /\ cathode = reader.digits[an] ->
             [reader |-> looked, send |-> FALSE]
        [] OTHER -> [reader |-> changed,
                     send |-> reader.initial < bound.digits /\ changed.initial = bound.digits]

\* The reader after a look at the pins, and whether the number is to be sent.
sev_seg_tick(reader, an, cathode) ==
  LET looked  == [reader EXCEPT !.last = an]
      changed == [looked EXCEPT !.digits[an] = cathode,
                    !.initial = IF @ < bound.digits THEN @ + 1 ELSE @]
  IN  CASE an = reader.last -> [reader |-> reader, send |-> FALSE]
        [] an # reader.last /\ cathode = reader.digits[an] ->
             [reader |-> looked, send |-> FALSE]
        [] OTHER -> [reader |-> changed, send |-> changed.initial = bound.digits]

\* The number whose digits, of base sixteen, the reader has.
decoded_value(digits) ==
  LET value[n \in 0..bound.digits] ==
        IF n = 0 THEN 0 ELSE 16 * value[n - 1] + digits[bound.digits - n]
  IN  value[bound.digits]

Display ==
  /\ pc = "display"
  /\ pc' = "serial"
  /\ design' = [design EXCEPT !.polled = TRUE]
  /\ IF ~connected THEN UNCHANGED <<sevseg, head, fresh>>
     ELSE LET t == sev_seg_tick(sevseg, design.an, design.word[design.an])
          IN  /\ sevseg' = t.reader
              /\ IF t.send THEN vidbo_send("seg", decoded_value(t.reader.digits))
                 ELSE UNCHANGED <<head, fresh>>
  /\ UNCHANGED <<bound, tb, connected, pending, inputVals, pss, todo, page, up, lost>>

\* Mutation: the line stays in the UART reader.
SendLineKept ==
  /\ pc = "serial"
  /\ pc' = "run" /\ fresh' = FALSE
  /\ head' = IF connected /\ tb.line < design.lines
             THEN Append(head, [EmptyBatch EXCEPT !.line = tb.line + 1])
             ELSE head
  /\ UNCHANGED <<bound, design, tb, sevseg, connected, pending, inputVals, pss, todo, page, up, lost>>

\* After every hundredth poll a line of the UART reader is sent; then, as after
\* the other polls, time goes on.
SendLine ==
  /\ pc = "serial"
  /\ pc' = "run" /\ fresh' = FALSE
  /\ IF connected /\ tb.line < design.lines
     THEN /\ tb' = [tb EXCEPT !.line = @ + 1]
          /\ head' = IF fresh /\ head # <<>>
                     THEN [head EXCEPT ![Len(head)].line = tb.line + 1]
                     ELSE Append(head, [EmptyBatch EXCEPT !.line = tb.line + 1])
     ELSE UNCHANGED <<tb, head>>
  /\ UNCHANGED <<bound, design, sevseg, connected, pending, inputVals, pss, todo, page, up, lost>>

NotHundredth ==
  /\ pc = "serial"
  /\ pc' = "run" /\ fresh' = FALSE
  /\ UNCHANGED <<bound, design, tb, sevseg, head, connected, pending, inputVals, pss, todo,
                 page, up, lost>>
-----------------------------------------------------------------------------
(* nexys-a7.html: what the user of a page does.  The main loop learns of   *)
(* it in a service call only, so outside one a single moment stands for    *)
(* all of them.                                                            *)

User(p, pg) ==
  /\ pc \in {"run", "service"}
  /\ page' = [page EXCEPT ![p] = pg]
  /\ UNCHANGED <<bound, pc, design, tb, sevseg, vidbo, todo, lost>>

Connect(p) ==
  /\ p \in bound.pages
  /\ page[p].st = "off" /\ page[p].connects < bound.connects
  /\ User(p, [page[p] EXCEPT !.st = "opening", !.connects = @ + 1])
  /\ UNCHANGED up

ToggleSwitch(p) ==
  /\ page[p].st = "open" /\ page[p].toggles < bound.toggles
  /\ User(p, [page[p] EXCEPT !.sent = @ + 1, !.toggles = @ + 1])
  /\ up' = [up EXCEPT ![p] = Append(@, page[p].sent + 1)]

Disconnect(p) ==
  /\ page[p].st = "open"
  /\ User(p, [page[p] EXCEPT !.st = "gone"])
  /\ UNCHANGED up
-----------------------------------------------------------------------------
Callbacks == \E p \in Page : Established(p) \/ Closed(p) \/ Receive(p) \/ Writeable(p)

MainLoop == \/ Poll \/ vidbo_recv \/ Callbacks \/ ServiceDone
            \/ Display \/ SendLine \/ NotHundredth

Software == ChangeLeds \/ WriteDigits \/ PrintLine

Users == \E p \in Page : Connect(p) \/ ToggleSwitch(p) \/ Disconnect(p)

Next == MainLoop \/ Software \/ NextDigit \/ Users

\* The main loop runs for ever, it never waits; the display is scanned by a
\* free-running counter; every hundredth poll looks for a line.  Nothing makes
\* the program or a user act.
Fairness == []<><<MainLoop>>_vars /\ []<><<NextDigit>>_vars /\ []<><<SendLine>>_vars

Spec == Init /\ [][Next]_vars /\ Fairness
=============================================================================
