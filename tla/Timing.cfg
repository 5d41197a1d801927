CONSTANTS
  L = 8
  H = 256
  MaxWait = 1
  Hz = 40
  Configured = {0, 7}
  Costs <- SomeCosts
SPECIFICATION TimingSpec
INVARIANTS Snapshot SetLands MeasuresTheRun
PROPERTIES ImplementsCounter ReportIsSound
