SPECIFICATION FairSpec
CONSTANTS
  lib = lib
  gen = gen
  play = play
  x = x
  y = y
  Keys = {lib, gen, play}
  BlockOf <- MCBlockOf
  ROKeys = {lib}
  ROValue = x
  Values = {x, y}
  NoValue = NoValue
  Specs <- MCSpecs
  FirstDocs <- MCFirstDocs
  HandValues = {y}
  MaxGen = 2
  MaxHand = 1
  MaxFaults = 1
INVARIANTS TypeOK ReadyMeansApplied
PROPERTIES OverlayPreserves SettingsConverge PostsSettle
