SPECIFICATION ControlFairSpec
CONSTANTS
  Key = {F1}
  Bound = {0, 5, 25}
  Step = {10, 15}
  MaxControl = 2
INVARIANTS KeyFiresOne ToggleHonest
PROPERTIES SliderSettles
