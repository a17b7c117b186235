SPECIFICATION LifeSpec
CONSTANTS
  HttpPool = {h1, h2}
  Main = Main
  Worker = Worker
  Nobody = Nobody
  Word = 64
  One = 2
  NaN = NaN
  Samples <- SmallSamples
  SampleCounts <- SmallCounts
  StubSamples = 4
PROPERTIES
  SignalStops
CHECK_DEADLOCK FALSE
