-------------------------- MODULE TimingProperties --------------------------
(***************************************************************************)
(* What the measurement must be worth: the properties of Timing.           *)
(***************************************************************************)
EXTENDS Timing

\* The cycles between the two low reads that are not work: the rest of one
\* call, the begin of the other, and one more turn of either.
Overhead == 2..((2 * MaxWait) + 8)

\* get_time is the work of the run and a few cycles of reading, whatever the
\* halves of the counters did in the meantime.
MeasuresTheRun ==
  Stopped => get_time - (iterations * cost) \in Overhead

\* main reports in the end.  "Must execute for at least 10 secs for a valid
\* result": a calibrated run does, however the seconds of its tries were cut
\* off, and the error is left for numbers of iterations that were compiled in.
\* Without an error the rate printed is at most a tenth above the true one,
\* although it is computed from whole seconds.
ReportIsSound ==
  /\ <>(pc = "done")
  /\ [](pc = "done" =>
           IF report.error THEN iterations \in Configured
           ELSE 10 * report.rate * get_time <= 11 * iterations * Hz)

\* main uses csr_lib as Counter describes it: what is proved of Counter holds
\* of every read and write that main makes.
ImplementsCounter == Spec
=============================================================================
