SPECIFICATION Spec
CONSTANTS
  Ticker = {t, u}
  Id = {i, j, k}
  Price = {1, 2, 3}
  Qty = {1, 2}
  Recovered = {t}
  MaxVolume = 3
  ThresholdNum = 1
  ThresholdDen = 2
INVARIANTS
  BBOIsTop
  FeatureIsOwn
  MakerDoesNotCross
SYMMETRY Symmetry
VIEW View
